---- MODULE Spec2Model ----
(***************************************************************************)
(* Model of the file-sorting agent: the response coercer (llm_io.py), the  *)
(* action sanitizer (actions.py), the move primitive (tools.py), the queue *)
(* helpers (utils_fs.py) and the orchestration loop (agent.py).            *)
(*                                                                         *)
(* Strings are sequences of tokens.  A token is either one of the special  *)
(* characters the code distinguishes (" ", "/", "?" for a character that   *)
(* is neither a word character nor one of ".-() ") or a word: a run of     *)
(* other characters that no operation of the code ever splits.  A path is  *)
(* a sequence of segments below the vault root (config.ROOT); a segment is *)
(* a string without "/".                                                   *)
(***************************************************************************)
EXTENDS Naturals, Integers, Sequences, FiniteSets, TLC

VARIABLES
    queue,      \* run(): the deque of paths still to process
    stage,      \* run(): path -> ST_LIGHT / ST_DECIDE (a partial map)
    inspected,  \* run(): inspected_count, path -> number of inspections
    mem,        \* run(): the memory log of tool results
    step,       \* run(): the step counter
    fs,         \* the vault's file tree: path -> "dir" or the file's identity
    fs0,        \* the tree the run started from (observation only)
    coh,        \* CohesionTracker.stats
    escalated,  \* CohesionTracker.already_escalated
    expStep,    \* snap_cache["exp_step"]
    fails,      \* run(): decide_fail_counts, path -> failed DECIDE steps
    pc,         \* where the run is: "run", "done", "crashed", or "off"
    last,       \* what the last step of the loop did (observation only)
    hin,        \* the argument of the function under test (function harnesses)
    hout,       \* its result
    hpc         \* "off", "ready" or "called"

vars == <<queue, stage, inspected, mem, step, fs, fs0, coh, escalated, expStep,
          fails, pc, last, hin, hout, hpc>>

(***************************************************************************)
(* Strings                                                                 *)
(***************************************************************************)
\* With(v, F): F applied to the value v, a local variable of the code
With(v, F(_)) == F(v)

SP == " "
SEP == "/"
BAD == "?"

S(w) == <<w>>

RECURSIVE LStrip(_, _)
LStrip(s, C) ==
    IF s # <<>> /\ Head(s) \in C THEN LStrip(Tail(s), C) ELSE s

RECURSIVE RStrip(_, _)
RStrip(s, C) ==
    IF s # <<>> /\ s[Len(s)] \in C THEN RStrip(SubSeq(s, 1, Len(s) - 1), C) ELSE s

\* str.strip() and str.strip("/")
Strip(s) == RStrip(LStrip(s, {SP}), {SP})
StripSep(s) == RStrip(LStrip(s, {SEP}), {SEP})

RECURSIVE SplitAcc(_, _, _)
SplitAcc(s, cur, acc) ==
    IF s = <<>> THEN Append(acc, cur)
    ELSE IF Head(s) = SEP THEN SplitAcc(Tail(s), <<>>, Append(acc, cur))
    ELSE SplitAcc(Tail(s), Append(cur, Head(s)), acc)

\* str.split("/")
Split(s) == SplitAcc(s, <<>>, <<>>)

\* str.split("/", 1)
Split1(s) ==
    IF \E i \in 1..Len(s) : s[i] = SEP
    THEN LET i == CHOOSE k \in 1..Len(s) :
                    s[k] = SEP /\ \A j \in 1..(k - 1) : s[j] # SEP
         IN <<SubSeq(s, 1, i - 1), SubSeq(s, i + 1, Len(s))>>
    ELSE <<s>>

RECURSIVE Join(_)
Join(segs) ==
    IF segs = <<>> THEN <<>>
    ELSE IF Len(segs) = 1 THEN segs[1]
    ELSE segs[1] \o <<SEP>> \o Join(Tail(segs))

RECURSIVE SelectNonEmpty(_)
SelectNonEmpty(segs) ==
    IF segs = <<>> THEN <<>>
    ELSE IF Head(segs) = <<>> THEN SelectNonEmpty(Tail(segs))
    ELSE <<Head(segs)>> \o SelectNonEmpty(Tail(segs))

\* str.casefold(), word by word
FoldWord(w) ==
    CASE w \in {"Documents", "DOCUMENTS", "documents"} -> "documents"
      [] w \in {"Media", "MEDIA", "media"} -> "media"
      [] w \in {"Projects", "PROJECTS", "projects"} -> "projects"
      [] w = "Other" -> "other"
      [] OTHER -> w

casefold(s) == [i \in 1..Len(s) |-> FoldWord(s[i])]

IsPrefix(p, q) == Len(p) <= Len(q) /\ SubSeq(q, 1, Len(p)) = p

(***************************************************************************)
(* config.py: the data roots, as paths below the vault root                *)
(***************************************************************************)
ROOT == <<>>
INBOX == <<S("INBOX")>>
DOCS == <<S("Documents")>>
PROJ == <<S("Projects")>>
MEDIA == <<S("Media")>>

allowed_destinations ==
    << <<"Documents", SEP, "*">>, <<"Media", SEP, "*">>, <<"Projects">> >>

(***************************************************************************)
(* utils_fs.py                                                             *)
(***************************************************************************)
\* os.path.normpath of an absolute path string, as a path below the vault
RECURSIVE NormAcc(_, _)
NormAcc(segs, acc) ==
    IF segs = <<>> THEN acc
    ELSE IF Head(segs) = <<>> \/ Head(segs) = S(".") THEN NormAcc(Tail(segs), acc)
    ELSE IF Head(segs) = S("..")
         THEN NormAcc(Tail(segs), IF acc = <<>> THEN acc ELSE SubSeq(acc, 1, Len(acc) - 1))
    ELSE NormAcc(Tail(segs), Append(acc, Head(segs)))

fs_norm_path(s) == NormAcc(Split(s), <<>>)

\* str(pathlib.Path): the absolute path string of a path
RECURSIVE PathStr(_)
PathStr(p) ==
    IF p = <<>> THEN <<SEP>>
    ELSE IF Len(p) = 1 THEN <<SEP>> \o p[1]
    ELSE PathStr(SubSeq(p, 1, Len(p) - 1)) \o <<SEP>> \o p[Len(p)]

\* re.sub(r"[^\w.\-() ]+", "_", s): a run of disallowed characters becomes "_"
RECURSIVE SubBad(_, _)
SubBad(s, inRun) ==
    IF s = <<>> THEN <<>>
    ELSE IF Head(s) \in {SEP, BAD}
         THEN (IF inRun THEN <<>> ELSE <<"_">>) \o SubBad(Tail(s), TRUE)
    ELSE <<Head(s)>> \o SubBad(Tail(s), FALSE)

\* re.sub(r"\s+", " ", s): a run of whitespace becomes one space
RECURSIVE SubSpaces(_, _)
SubSpaces(s, inRun) ==
    IF s = <<>> THEN <<>>
    ELSE IF Head(s) = SP
         THEN (IF inRun THEN <<>> ELSE <<SP>>) \o SubSpaces(Tail(s), TRUE)
    ELSE <<Head(s)>> \o SubSpaces(Tail(s), FALSE)

\* unidecode: the accented word becomes its ASCII transliteration
unidecode(s) == [i \in 1..Len(s) |-> IF s[i] = "e_acute" THEN "e" ELSE s[i]]

\* A faulty variant of safe_ascii without the default name of line 20
SafeAsciiNoDefault(s) ==
    Strip(SubSpaces(Strip(SubBad(unidecode(s), FALSE)), FALSE))

safe_ascii(s) ==
    LET s1 == Strip(SubBad(unidecode(s), FALSE))
        s2 == Strip(SubSpaces(s1, FALSE))
    IN IF s2 = <<>> THEN S("unnamed") ELSE s2

(***************************************************************************)
(* JSON values as the model returns them                                   *)
(***************************************************************************)
JNull == [t |-> "null"]
JNumber(n) == [t |-> "num", n |-> n]
JNum == JNumber(5)
JBool(b) == [t |-> "bool", b |-> b]
JStr(s) == [t |-> "str", s |-> s]
JList(v) == [t |-> "list", v |-> v]
JObj(kv) == [t |-> "obj", kv |-> kv]

\* dict.get(key): None when the key is absent
Get(obj, key) == IF S(key) \in DOMAIN obj.kv THEN obj.kv[S(key)] ELSE JNull

\* An action object with the given fields; a JNull field is left out
JAct(tool, path, src, root, sub, fname) ==
    LET all == (S("tool") :> tool) @@ (S("path") :> path) @@ (S("src") :> src)
               @@ (S("destination_root") :> root) @@ (S("subpath") :> sub)
               @@ (S("filename") :> fname)
    IN JObj([k \in {x \in DOMAIN all : all[x] # JNull} |-> all[k]])

\* Python truthiness
Truthy(j) ==
    CASE j.t = "null" -> FALSE
      [] j.t = "num" -> j.n # 0
      [] j.t = "bool" -> j.b
      [] j.t = "str" -> j.s # <<>>
      [] j.t = "list" -> j.v # <<>>
      [] OTHER -> DOMAIN j.kv # {}

\* (value or default).strip(): AttributeError unless the chosen value is a string
StrOr(j, default) ==
    IF ~Truthy(j) THEN [ok |-> TRUE, s |-> Strip(default)]
    ELSE IF j.t = "str" THEN [ok |-> TRUE, s |-> Strip(j.s)]
    ELSE [ok |-> FALSE, s |-> <<>>]

(***************************************************************************)
(* json.loads and json.dumps on token strings.  A word in a value position *)
(* is a literal: "5" and "0" are numbers, "true", "false" and "null" the   *)
(* constants; any other word is not JSON.                                  *)
(***************************************************************************)
QUOTE == "\""
BSL == "\\"
CTRL == "CTRL"

ParseFail == [ok |-> FALSE, v |-> JNull, i |-> 0]
ParseOk(v, i) == [ok |-> TRUE, v |-> v, i |-> i]

RECURSIVE SkipWs(_, _)
SkipWs(t, i) == IF i <= Len(t) /\ t[i] = SP THEN SkipWs(t, i + 1) ELSE i

RECURSIVE StrScan(_, _, _)
StrScan(t, j, acc) ==
    IF j > Len(t) THEN ParseFail
    ELSE IF t[j] = QUOTE THEN ParseOk(JStr(acc), j + 1)
    ELSE IF t[j] = BSL
         THEN IF j + 1 <= Len(t) /\ t[j + 1] \in {QUOTE, BSL, SEP}
              THEN StrScan(t, j + 2, Append(acc, t[j + 1]))
              ELSE ParseFail
    ELSE StrScan(t, j + 1, Append(acc, t[j]))

RECURSIVE ParseValue(_, _)
RECURSIVE ParseElems(_, _, _)
RECURSIVE ParseMembers(_, _, _)

ParseValue(t, i) ==
    IF i > Len(t) THEN ParseFail
    ELSE CASE t[i] = QUOTE -> StrScan(t, i + 1, <<>>)
           [] t[i] = "5" -> ParseOk(JNumber(5), i + 1)
           [] t[i] = "0" -> ParseOk(JNumber(0), i + 1)
           [] t[i] = "true" -> ParseOk(JBool(TRUE), i + 1)
           [] t[i] = "false" -> ParseOk(JBool(FALSE), i + 1)
           [] t[i] = "null" -> ParseOk(JNull, i + 1)
           [] t[i] = "[" ->
                LET k == SkipWs(t, i + 1)
                IN IF k <= Len(t) /\ t[k] = "]" THEN ParseOk(JList(<<>>), k + 1)
                   ELSE ParseElems(t, k, <<>>)
           [] t[i] = "{" ->
                LET k == SkipWs(t, i + 1)
                IN IF k <= Len(t) /\ t[k] = "}" THEN ParseOk(JObj(<<>>), k + 1)
                   ELSE ParseMembers(t, k, <<>>)
           [] OTHER -> ParseFail

ParseElems(t, i, acc) ==
    With(ParseValue(t, i), LAMBDA r :
    IF ~r.ok THEN ParseFail
    ELSE With(SkipWs(t, r.i), LAMBDA k :
         IF k > Len(t) THEN ParseFail
         ELSE IF t[k] = "," THEN ParseElems(t, SkipWs(t, k + 1), Append(acc, r.v))
         ELSE IF t[k] = "]" THEN ParseOk(JList(Append(acc, r.v)), k + 1)
         ELSE ParseFail))

\* a repeated key keeps its last value
ParseMembers(t, i, acc) ==
    IF i > Len(t) \/ t[i] # QUOTE THEN ParseFail
    ELSE
    With(StrScan(t, i + 1, <<>>), LAMBDA key :
    IF ~key.ok THEN ParseFail
    ELSE
    With(SkipWs(t, key.i), LAMBDA c :
    IF c > Len(t) \/ t[c] # ":" THEN ParseFail
    ELSE
    With(ParseValue(t, SkipWs(t, c + 1)), LAMBDA r :
    IF ~r.ok THEN ParseFail
    ELSE
    With(SkipWs(t, r.i), LAMBDA k :
    IF k > Len(t) THEN ParseFail
    ELSE IF t[k] = ","
    THEN ParseMembers(t, SkipWs(t, k + 1), (key.v.s :> r.v) @@ acc)
    ELSE IF t[k] = "}" THEN ParseOk(JObj((key.v.s :> r.v) @@ acc), k + 1)
    ELSE ParseFail))))

\* json.loads(text): the whole text must be one value
json_loads(t) ==
    With(ParseValue(t, SkipWs(t, 1)), LAMBDA r :
        IF r.ok /\ SkipWs(t, r.i) > Len(t) THEN r ELSE ParseFail)

\* json.dumps: keys are written in this order
KeyOrder ==
    <<"actions", "tool", "path", "src", "destination_root", "subpath",
      "filename", "error", "note">>

RECURSIVE JoinWith(_, _)
JoinWith(parts, sep) ==
    IF parts = <<>> THEN <<>>
    ELSE IF Len(parts) = 1 THEN parts[1]
    ELSE parts[1] \o sep \o JoinWith(Tail(parts), sep)

RECURSIVE Escape(_)
Escape(s) ==
    IF s = <<>> THEN <<>>
    ELSE (IF Head(s) \in {QUOTE, BSL} THEN <<BSL, Head(s)>> ELSE <<Head(s)>>)
         \o Escape(Tail(s))

RECURSIVE json_dumps(_)
json_dumps(j) ==
    CASE j.t = "null" -> <<"null">>
      [] j.t = "num" -> IF j.n = 0 THEN <<"0">> ELSE <<"5">>
      [] j.t = "bool" -> IF j.b THEN <<"true">> ELSE <<"false">>
      [] j.t = "str" -> <<QUOTE>> \o Escape(j.s) \o <<QUOTE>>
      [] j.t = "list" ->
            <<"[">> \o JoinWith([i \in 1..Len(j.v) |-> json_dumps(j.v[i])], <<",">>)
            \o <<"]">>
      [] OTHER ->
            LET keys == SelectSeq(KeyOrder, LAMBDA k : S(k) \in DOMAIN j.kv)
            IN <<"{">>
               \o JoinWith([i \in 1..Len(keys) |->
                              <<QUOTE, keys[i], QUOTE, ":">>
                              \o json_dumps(j.kv[S(keys[i])])], <<",">>)
               \o <<"}">>

(***************************************************************************)
(* llm_io.py: _json_coerce                                                 *)
(***************************************************************************)
ErrorPlan(tag) ==
    JObj((S("actions") :> JList(<<>>)) @@ (S("error") :> JStr(S(tag))))

\* '"actions"' in frag
HasActionsLiteral(frag) ==
    \E i \in 1..(Len(frag) - 2) :
        frag[i] = QUOTE /\ frag[i + 1] = "actions" /\ frag[i + 2] = QUOTE

\* _first_balanced_with_actions: the scan's state is (i, in_str, esc, depth,
\* start); the result is the fragment, or <<>> for None
RECURSIVE BalancedScan(_, _, _, _, _, _)
BalancedScan(t, i, in_str, esc, depth, start) ==
    IF i > Len(t) THEN <<>>
    ELSE LET ch == t[i]
         IN IF in_str
            THEN IF esc THEN BalancedScan(t, i + 1, TRUE, FALSE, depth, start)
                 ELSE IF ch = BSL THEN BalancedScan(t, i + 1, TRUE, TRUE, depth, start)
                 ELSE IF ch = QUOTE THEN BalancedScan(t, i + 1, FALSE, FALSE, depth, start)
                 ELSE BalancedScan(t, i + 1, TRUE, FALSE, depth, start)
            ELSE IF ch = QUOTE THEN BalancedScan(t, i + 1, TRUE, esc, depth, start)
            ELSE IF ch = "{"
                 THEN BalancedScan(t, i + 1, FALSE, esc, depth + 1,
                                   IF depth = 0 THEN i ELSE start)
            ELSE IF ch = "}" /\ depth > 0
                 THEN IF depth = 1 /\ start # 0
                         /\ HasActionsLiteral(SubSeq(t, start, i))
                      THEN SubSeq(t, start, i)
                      ELSE BalancedScan(t, i + 1, FALSE, esc, depth - 1, start)
            ELSE BalancedScan(t, i + 1, FALSE, esc, depth, start)

_first_balanced_with_actions(t) == BalancedScan(t, 1, FALSE, FALSE, 0, 0)

\* re.search(r'\{.*?\}', txt, flags=re.S): from the first "{" to the first
\* "}" after it; <<>> when there is no match
FirstBraceSpan(t) ==
    LET opens == {i \in 1..Len(t) : t[i] = "{" /\ \E j \in (i + 1)..Len(t) : t[j] = "}"}
    IN IF opens = {} THEN <<>>
       ELSE LET a == CHOOSE i \in opens : \A k \in opens : i <= k
                b == CHOOSE j \in (a + 1)..Len(t) :
                        t[j] = "}" /\ \A k \in (a + 1)..(j - 1) : t[k] # "}"
            IN SubSeq(t, a, b)

DictOrNot(r) == IF r.v.t = "obj" THEN r.v ELSE ErrorPlan("not_dict_root")

\* json.loads of a fragment; None (<<>>) does not parse
LoadsFragment(frag) == IF frag = <<>> THEN ParseFail ELSE json_loads(frag)

_json_coerce(s) ==
    With(SelectSeq(Strip(s), LAMBDA c : c # CTRL), LAMBDA txt :
    With(json_loads(txt), LAMBDA direct :
    IF direct.ok THEN DictOrNot(direct)
    ELSE
    With(LoadsFragment(_first_balanced_with_actions(txt)), LAMBDA second :
    IF second.ok THEN DictOrNot(second)
    ELSE
    With(FirstBraceSpan(txt), LAMBDA m :
    IF m = <<>> THEN ErrorPlan("no_braces")
    ELSE With(json_loads(m), LAMBDA third :
            IF third.ok THEN DictOrNot(third)
            ELSE ErrorPlan("parse_coerce_fail"))))))

(***************************************************************************)
(* actions.py                                                              *)
(***************************************************************************)
_norm_key(value) == casefold(StripSep(Strip(value)))

canonical(key, dflt) ==
    CASE key = S("documents") -> S("Documents")
      [] key = S("media") -> S("Media")
      [] key = S("projects") -> S("Projects")
      [] OTHER -> dflt

allowed_root_names ==
    LET heads == {Strip(Split1(allowed_destinations[i])[1]) :
                    i \in 1..Len(allowed_destinations)} \ {<<>>}
        roots == heads \cup {DOCS[Len(DOCS)], MEDIA[Len(MEDIA)], PROJ[Len(PROJ)]}
    IN {canonical(_norm_key(r), StripSep(Strip(r))) : r \in roots}

root_alias_map ==
    LET keys == {_norm_key(l) : l \in allowed_root_names}
                  \cup {S("documents"), S("media"), S("projects")}
    IN [k \in keys |->
          IF k \in {S("documents"), S("media"), S("projects")}
          THEN canonical(k, k)
          ELSE CHOOSE l \in allowed_root_names : _norm_key(l) = k]

_auto_split_root(raw_root, alias_map) ==
    LET parts == Split1(raw_root)
    IN IF Len(parts) = 2 /\ _norm_key(Strip(parts[1])) \in DOMAIN alias_map
       THEN [root |-> alias_map[_norm_key(Strip(parts[1]))],
             extra |-> StripSep(Strip(parts[2])), changed |-> TRUE]
       ELSE [root |-> raw_root, extra |-> <<>>, changed |-> FALSE]

\* pathlib.PurePath(s).parts of an absolute path string: "." and empty
\* segments are dropped, ".." is kept
RECURSIVE PureAcc(_)
PureAcc(segs) ==
    IF segs = <<>> THEN <<>>
    ELSE IF Head(segs) = <<>> \/ Head(segs) = S(".") THEN PureAcc(Tail(segs))
    ELSE <<Head(segs)>> \o PureAcc(Tail(segs))

PureParts(s) == PureAcc(Split(s))

\* pathlib.Path(s).name
PathName(s) ==
    LET p == PureParts(s) IN IF p = <<>> THEN <<>> ELSE p[Len(p)]

\* str(pathlib.Path(src).relative_to(INBOX).parent).strip("/") or "Unsorted";
\* relative_to raises when src is not under INBOX
DerivedSubpath(src) ==
    LET p == PureParts(src)
    IN IF ~IsPrefix(INBOX, p) THEN S("Unsorted")
       ELSE LET rel == SubSeq(p, Len(INBOX) + 1, Len(p))
                parent == IF rel = <<>> THEN <<>> ELSE SubSeq(rel, 1, Len(rel) - 1)
                str == IF parent = <<>> THEN S(".") ELSE Join(parent)
            IN IF StripSep(str) = <<>> THEN S("Unsorted") ELSE StripSep(str)

EmptyDict == [empty |-> TRUE]

\* normalize_plan_move, lines 77-81: alias resolution of the stripped raw
\* root, then the split of a compound "Root/extra"
ResolveWith(raw_root, alias_map) ==
    With(_norm_key(raw_root), LAMBDA root_key :
        _auto_split_root(IF root_key \in DOMAIN alias_map THEN alias_map[root_key]
                         ELSE StripSep(Strip(raw_root)),
                         alias_map))

ResolvedRoot(raw_root) == ResolveWith(raw_root, root_alias_map)

\* A faulty variant of RootAllowed that lets every root through
RootAllowedAny(root, allowed_labels) == TRUE

\* normalize_plan_move, lines 87-88: the final root against the allowed set
RootAllowed(root, allowed_labels) ==
    _norm_key(root) \in {_norm_key(l) : l \in allowed_labels}

normalize_plan_move(action, current_path, allowed_labels) ==
    With(StrOr(Get(action, "src"), current_path), LAMBDA srcR :
    With(StrOr(Get(action, "destination_root"), <<>>), LAMBDA rootR :
    With(StrOr(Get(action, "subpath"), <<>>), LAMBDA subR :
    With(StrOr(Get(action, "filename"), PathName(srcR.s)), LAMBDA nameR :
    IF ~(srcR.ok /\ rootR.ok /\ subR.ok /\ nameR.ok)
    THEN [raised |-> TRUE, normalized |-> EmptyDict, notes |-> <<>>]
    ELSE
    With(ResolvedRoot(rootR.s), LAMBDA sp :
    With(StripSep(subR.s), LAMBDA subpath0 :
    LET notes == IF sp.changed THEN <<"auto_split_root_subpath">> ELSE <<>>
        subpath1 == IF sp.changed
                    THEN Join(SelectNonEmpty(<<sp.extra, subpath0>>))
                    ELSE subpath0
    IN IF ~RootAllowed(sp.root, allowed_labels)
       THEN [raised |-> FALSE, normalized |-> EmptyDict,
             notes |-> Append(notes, "invalid_root")]
       ELSE [raised |-> FALSE,
             normalized |->
                 [tool |-> "plan_move",
                  src |-> fs_norm_path(srcR.s),
                  destination_root |-> sp.root,
                  subpath |-> IF subpath1 = <<>> THEN DerivedSubpath(srcR.s)
                              ELSE subpath1,
                  filename |->
                      safe_ascii(IF nameR.s # <<>> THEN nameR.s
                                 ELSE With(PathName(srcR.s), LAMBDA nm :
                                        IF nm = <<>> THEN S("unnamed") ELSE nm))],
             notes |-> notes]))))))

\* One entry of the loop of sanitize_actions.  The result carries the entry's
\* contribution to `sane`, the log events and whether an exception escaped.
SanitizeOne(raw_action, current_path, allowed_labels) ==
    IF raw_action.t # "obj"
    THEN [raised |-> FALSE, sane |-> <<>>,
          logs |-> <<[event |-> "drop_bad_action", reason |-> "not_dict"]>>]
    ELSE
    With(StrOr(Get(raw_action, "tool"), <<>>), LAMBDA toolR :
    IF ~toolR.ok THEN [raised |-> TRUE, sane |-> <<>>, logs |-> <<>>]
    ELSE IF toolR.s \notin {S("list_dir"), S("inspect_file"), S("plan_move")}
    THEN [raised |-> FALSE, sane |-> <<>>,
          logs |-> <<[event |-> "drop_bad_action", reason |-> "bad_tool"]>>]
    ELSE IF toolR.s \in {S("list_dir"), S("inspect_file")}
    THEN [raised |-> FALSE,
          sane |-> <<[tool |-> toolR.s[1],
                      path |-> With(Get(raw_action, "path"), LAMBDA pth :
                                 IF Truthy(pth) THEN pth ELSE JStr(current_path))]>>,
          logs |-> <<>>]
    ELSE
    With(normalize_plan_move(raw_action, current_path, allowed_labels), LAMBDA n :
    IF n.raised THEN [raised |-> TRUE, sane |-> <<>>, logs |-> <<>>]
    ELSE IF "src" \in DOMAIN n.normalized /\ n.normalized.destination_root # <<>>
    THEN IF n.normalized.subpath = <<>>
         THEN [raised |-> FALSE, sane |-> <<>>,
               logs |-> <<[event |-> "drop_plan_move", reason |-> "empty_subpath"]>>]
         ELSE [raised |-> FALSE, sane |-> <<n.normalized>>,
               logs |-> IF n.notes # <<>>
                        THEN <<[event |-> "normalize_notes", notes |-> n.notes]>>
                        ELSE <<>>]
    ELSE [raised |-> FALSE, sane |-> <<>>,
          logs |-> <<[event |-> "invalid_plan_move", notes |-> n.notes]>>]))

\* The entries a value yields when iterated: a list's elements; a string's
\* characters and an object's keys are strings (never dicts)
IterOf(actions) ==
    CASE actions.t = "list" -> actions.v
      [] actions.t = "str" -> [i \in 1..Len(actions.s) |-> JStr(S(actions.s[i]))]
      [] OTHER -> [i \in 1..Cardinality(DOMAIN actions.kv) |-> JStr(S("key"))]

RECURSIVE SanitizeLoop(_, _, _, _, _)
SanitizeLoop(entries, i, current_path, allowed_labels, acc) ==
    IF i > Len(entries) THEN acc
    ELSE With(SanitizeOne(entries[i], current_path, allowed_labels), LAMBDA r :
            IF r.raised
            THEN [acc EXCEPT !.raised = TRUE, !.logs = acc.logs \o r.logs]
            ELSE SanitizeLoop(entries, i + 1, current_path, allowed_labels,
                    [raised |-> FALSE,
                     sane |-> acc.sane \o r.sane,
                     origin |-> acc.origin \o [k \in 1..Len(r.sane) |-> i],
                     logs |-> acc.logs \o r.logs]))

\* sanitize_actions(actions or [], current_path, allowed_labels, log_fn):
\* `origin` names, for each returned action, the raw entry it comes from
sanitize_actions(actions, current_path, allowed_labels) ==
    LET empty == [raised |-> FALSE, sane |-> <<>>, origin |-> <<>>, logs |-> <<>>]
        cur == PathStr(fs_norm_path(current_path))
    IN IF ~Truthy(actions) THEN empty
       ELSE IF actions.t \in {"num", "bool"} THEN [empty EXCEPT !.raised = TRUE]
       ELSE SanitizeLoop(IterOf(actions), 1, cur, allowed_labels, empty)

(***************************************************************************)
(* The file tree                                                           *)
(***************************************************************************)
Exists(f, p) == p \in DOMAIN f
IsDir(f, p) == p \in DOMAIN f /\ f[p] = "dir"
IsLink(f, p) == p \in DOMAIN f /\ f[p] = "link"
IsFile(f, p) == p \in DOMAIN f /\ f[p] \notin {"dir", "link"}
Parent(p) == IF p = <<>> THEN <<>> ELSE SubSeq(p, 1, Len(p) - 1)
Prefixes(p) == {SubSeq(p, 1, k) : k \in 0..Len(p)}
\* q is p or lies under p
Under(p, q) == IsPrefix(p, q)

\* The files (identities) present anywhere in the tree
FilesOf(f) == {f[p] : p \in {q \in DOMAIN f : f[q] \notin {"dir", "link"}}}

\* shutil.rmtree's effect on the tree; keepSelf: the final rmdir did not happen
RemoveTree(f, p, keepSelf) ==
    [q \in {r \in DOMAIN f : ~Under(p, r) \/ (keepSelf /\ r = p)} |-> f[q]]

\* Path.mkdir(parents=True, exist_ok=True)
MkdirFails(f, d) == \E q \in Prefixes(d) : Exists(f, q) /\ ~IsDir(f, q)
MkdirP(f, d) ==
    [q \in DOMAIN f \cup Prefixes(d) |-> IF q \in DOMAIN f THEN f[q] ELSE "dir"]

\* os.rename of a file or of a whole directory
Rename(f, src, dst) ==
    LET moved == {q \in DOMAIN f : Under(src, q)}
        kept == {q \in DOMAIN f : ~Under(src, q) /\ ~Under(dst, q)}
        to(q) == dst \o SubSeq(q, Len(src) + 1, Len(q))
    IN [r \in kept \cup {to(q) : q \in moved} |->
          IF r \in kept THEN f[r]
          ELSE f[CHOOSE q \in moved : to(q) = r]]

(***************************************************************************)
(* tools.py                                                                *)
(***************************************************************************)
_HIDDEN_NAMES == {S("_moved_today")}

_ROOT_MAP ==
    [k \in {S("Documents"), S("Media"), S("Projects")} |->
        CASE k = S("Documents") -> DOCS
          [] k = S("Media") -> MEDIA
          [] OTHER -> PROJ]

\* name.startswith(".")
StartsWithDot(seg) ==
    seg # <<>> /\ seg[1] \in {".", "..", ".git", ".venv", ".hidden", ".cache"}

\* Children of a directory, in no particular order (Path.iterdir)
Children(f, p) == {q \in DOMAIN f : Len(q) = Len(p) + 1 /\ Under(p, q)}

\* tool_list_dir: the paths of the entries returned; iterdir raises on
\* anything but a directory and the error is returned with no items
tool_list_dir(f, p) ==
    IF ~IsDir(f, p) THEN {}
    ELSE {q \in Children(f, p) :
            ~StartsWithDot(q[Len(q)]) /\ q[Len(q)] \notin _HIDDEN_NAMES
            /\ ~IsLink(f, q)}

_sanitize_segment(segment) ==
    LET sg == Strip(SelectSeq(segment, LAMBDA t : t # "NUL"))
    IN IF sg \in {<<>>, S("."), S("..")} THEN S("_") ELSE sg

\* shutil.move(src, dst) on the tree; dst is the path the OS resolves and
\* `real` the place the source goes to: into dst when dst is a directory
MoveInto(f, src, real, dst_is_dir) ==
    IF dst_is_dir /\ Exists(f, real) /\ real # src
    THEN [ok |-> FALSE, fs |-> f, real |-> real]
    ELSE IF ~Exists(f, src) THEN [ok |-> FALSE, fs |-> f, real |-> real]
    ELSE IF IsDir(f, src) /\ Under(src, real) /\ src # real
    THEN [ok |-> FALSE, fs |-> f, real |-> real]
    ELSE IF IsDir(f, src) /\ Exists(f, real) /\ src # real
    THEN [ok |-> FALSE, fs |-> f, real |-> real]
    ELSE IF ~IsDir(f, Parent(real))
    THEN [ok |-> FALSE, fs |-> f, real |-> real]
    ELSE [ok |-> TRUE, fs |-> Rename(f, src, real), real |-> real]

shutil_move(f, src, dst) ==
    MoveInto(f, src,
             IF IsDir(f, dst) /\ src # <<>> THEN Append(dst, src[Len(src)]) ELSE dst,
             IsDir(f, dst))

\* tool_plan_move(src, destination_root, subpath, filename).  The result
\* carries the tree afterwards, moved_to / error as returned, and `real`:
\* the place the source actually went to.  Inside the try block an exception
\* is the outcome MoveExc, with the tree as it is at that moment.
MoveExc(f) ==
    [fs |-> f, raised |-> TRUE, error |-> TRUE, moved_to |-> <<>>, real |-> <<>>]

\* lines 105-106: {"moved_to": None, "error": str(exc)}
MoveErr(f) ==
    [fs |-> f, raised |-> FALSE, error |-> TRUE, moved_to |-> <<>>, real |-> <<>>]

\* lines 101-103: shutil.move and the result
MoveDone(f, src, dest_path, dest_str) ==
    With(shutil_move(f, src, dest_path), LAMBDA m :
        IF m.ok
        THEN [fs |-> m.fs, raised |-> FALSE, error |-> FALSE,
              moved_to |-> dest_str, real |-> m.real]
        ELSE MoveExc(f))

\* lines 92-94: base.joinpath(*safe_parts)
DestDir(destination_root, subpath) ==
    With(SelectNonEmpty(Split(subpath)), LAMBDA parts :
        _ROOT_MAP[destination_root]
        \o [i \in 1..Len(parts) |-> _sanitize_segment(parts[i])])

\* lines 97-103.  dest_dir / safe_name: pathlib drops ".", the OS resolves ".."
MoveTo(f1, src, dest_dir, safe_name) ==
    With(IF safe_name = S(".") THEN dest_dir
         ELSE IF safe_name = S("..") THEN Parent(dest_dir)
         ELSE Append(dest_dir, safe_name), LAMBDA dest_path :
    With(IF safe_name = S(".") THEN PathStr(dest_dir)
         ELSE PathStr(Append(dest_dir, safe_name)), LAMBDA dest_str :
    IF IsDir(f1, src) /\ Exists(f1, dest_path)
    THEN IF ~IsDir(f1, dest_path) THEN MoveExc(f1)
         ELSE IF safe_name = S("..")
         THEN MoveExc(RemoveTree(f1, dest_path, TRUE))
         ELSE MoveDone(RemoveTree(f1, dest_path, FALSE), src, dest_path, dest_str)
    ELSE MoveDone(f1, src, dest_path, dest_str)))

\* lines 88-104: the body of the try block
PlanMoveBody(f, src, destination_root, subpath, filename) ==
    IF destination_root \notin DOMAIN _ROOT_MAP THEN MoveExc(f)
    ELSE With(DestDir(destination_root, subpath), LAMBDA dest_dir :
            IF MkdirFails(f, dest_dir) THEN MoveExc(f)
            ELSE MoveTo(MkdirP(f, dest_dir), src, dest_dir, safe_ascii(filename)))

\* A faulty variant of tool_plan_move without the except clause
PlanMoveUncaught(f, src, destination_root, subpath, filename) ==
    PlanMoveBody(f, src, destination_root, subpath, filename)

\* lines 87 and 105-106: every exception of the body becomes an error result
tool_plan_move(f, src, destination_root, subpath, filename) ==
    With(PlanMoveBody(f, src, destination_root, subpath, filename), LAMBDA r :
        IF r.raised THEN MoveErr(r.fs) ELSE r)

\* A faulty variant of purge_queue_under that removes the moved path alone
PurgeEqualOnly(q, moved_path) == SelectSeq(q, LAMBDA e : e # moved_path)

\* purge_queue_under(queue, moved_path): resolve() is the identity on the
\* normalized paths of a tree without symlinks
purge_queue_under(q, moved_path) ==
    SelectSeq(q, LAMBDA e : ~(e = moved_path \/ Under(moved_path, e)))

path_exists(f, p) == Exists(f, p)

(***************************************************************************)
(* agent.py: CohesionTracker                                               *)
(***************************************************************************)
K_THRESHOLD == 3
PURITY_NUM == 4
PURITY_DEN == 5
MAX_CHILDREN_CAP == 500

\* Path.suffix.lower() of the names the model uses
ExtOf(seg) ==
    CASE seg \in {S("1.mp3"), S("2.mp3"), S("3.mp3")} -> ".mp3"
      [] seg = S("z.txt") -> ".txt"
      [] seg = S("x.js") -> ".js"
      [] OTHER -> ""

NewStats == [votes |-> <<>>, exts |-> <<>>, seen |-> {}, total |-> 0]

\* A faulty variant of Bump that sets the count to 1 instead of adding 1
BumpToOne(counter, k) == (k :> 1) @@ counter

Bump(counter, k) ==
    IF k \in DOMAIN counter THEN [counter EXCEPT ![k] = @ + 1]
    ELSE (k :> 1) @@ counter

\* A faulty variant of note that counts a file each time it is noted
NoteAlways(stats, parent, file_path, dest_root, subpath) ==
    LET s == IF parent \in DOMAIN stats THEN stats[parent] ELSE NewStats
    IN (parent :> [votes |-> Bump(s.votes, <<dest_root, subpath>>),
                   exts |-> Bump(s.exts, ExtOf(file_path[Len(file_path)])),
                   seen |-> s.seen \cup {file_path},
                   total |-> s.total + 1]) @@ stats

\* CohesionTracker.note
note(stats, parent, file_path, dest_root, subpath) ==
    LET s == IF parent \in DOMAIN stats THEN stats[parent] ELSE NewStats
    IN IF file_path \in s.seen THEN (parent :> s) @@ stats
       ELSE (parent :> [votes |-> Bump(s.votes, <<dest_root, subpath>>),
                        exts |-> Bump(s.exts, ExtOf(file_path[Len(file_path)])),
                        seen |-> s.seen \cup {file_path},
                        total |-> s.total + 1]) @@ stats

RECURSIVE Pow(_, _)
Pow(b, e) == IF e = 0 THEN 1 ELSE b * Pow(b, e - 1)

RECURSIVE ProdPow(_, _)
ProdPow(counter, keys) ==
    IF keys = {} THEN 1
    ELSE LET k == CHOOSE x \in keys : TRUE
         IN Pow(counter[k], counter[k]) * ProdPow(counter, keys \ {k})

NoConsensus == <<>>

\* CohesionTracker.consensus, lines 50-69: the tests on the votes, the
\* extensions and the size of the folder
Majority(stats, f, parent) ==
    IF parent \notin DOMAIN stats \/ stats[parent].total < K_THRESHOLD
    THEN NoConsensus
    ELSE
    LET s == stats[parent]
        dest == CHOOSE d \in DOMAIN s.votes :
                    \A e \in DOMAIN s.votes : s.votes[e] <= s.votes[d]
        cnt == s.votes[dest]
        SumOver[ks \in SUBSET DOMAIN s.exts] ==
            IF ks = {} THEN 0
            ELSE LET k == CHOOSE x \in ks : TRUE
                 IN s.exts[k] + SumOver[ks \ {k}]
        total == SumOver[DOMAIN s.exts]
        children == {q \in Children(f, parent) : ~StartsWithDot(q[Len(q)])}
    IN IF cnt * PURITY_DEN < s.total * PURITY_NUM THEN NoConsensus
       \* -sum((c/total) * log2(c/total)) > 1.0, said in integers
       ELSE IF Pow(total, total) > Pow(2, total) * ProdPow(s.exts, DOMAIN s.exts)
       THEN NoConsensus
       ELSE IF IsDir(f, parent) /\ Cardinality(children) > MAX_CHILDREN_CAP
       THEN NoConsensus
       ELSE dest

\* A faulty variant of consensus that forgets the escalations made
ConsensusAgain(stats, already, f, parent) == Majority(stats, f, parent)

\* CohesionTracker.consensus: the winning (destination_root, subpath), or
\* NoConsensus for None
consensus(stats, already, f, parent) ==
    IF parent \in already THEN NoConsensus ELSE Majority(stats, f, parent)

(***************************************************************************)
(* agent.py: the orchestration loop, run()                                 *)
(***************************************************************************)
ST_LIGHT == 0
ST_DECIDE == 1
SNAP_TTL_STEPS == 10
INSPECT_CAP_PER_FILE == 2
MEM_WINDOW == 64

\* config.MAX_STEPS (500 by default), kept small here
MAX_STEPS == 5

DEP_DIR_NAMES ==
    {"node_modules", "bower_components", "vendor", ".venv", "venv", ".pip",
     ".mypy_cache", ".git", ".svn", ".hg", "build", "dist", "target", ".next",
     ".cache"}

\* A faulty variant of _is_in_dep_dir that looks at the last segment alone
DepLeafOnly(p) ==
    p # <<>> /\ Len(p[Len(p)]) = 1 /\ p[Len(p)][1] \in DEP_DIR_NAMES

_is_in_dep_dir(p) ==
    \E i \in 1..Len(p) : Len(p[i]) = 1 /\ p[i][1] \in DEP_DIR_NAMES

\* The order of the names of the model: os.path.basename(s).lower() for the
\* initial queue, the plain string order for sorted(kids)
LowerOrder ==
    <<S("1.mp3"), S("2.mp3"), S("3.mp3"), S("Album"), S("build"), S("x.js"),
      S("z.txt")>>
StringOrder ==
    <<S("1.mp3"), S("2.mp3"), S("3.mp3"), S("Album"), S("build"), S("x.js"),
      S("z.txt")>>

Rank(order, seg) ==
    IF \E i \in 1..Len(order) : order[i] = seg
    THEN CHOOSE i \in 1..Len(order) : order[i] = seg
    ELSE Len(order) + 1

\* The paths of a set of siblings, sorted by name in the given order
RECURSIVE SortedBy(_, _)
SortedBy(order, ps) ==
    IF ps = {} THEN <<>>
    ELSE LET m == CHOOSE q \in ps :
                    \A r \in ps : Rank(order, q[Len(q)]) <= Rank(order, r[Len(r)])
         IN <<m>> \o SortedBy(order, ps \ {m})

\* The vaults a run starts from.  AlbumTree: a folder of three files of one
\* kind, a dependency folder and a loose file in the inbox; the destination
\* Documents/Fin already holds a file named like one of the album.
\* LooseTree: three loose files in the inbox.
AlbumTree ==
    LET dirs == {ROOT, INBOX, DOCS, MEDIA, PROJ, INBOX \o <<S("Album")>>,
                 INBOX \o <<S("build")>>, DOCS \o <<S("Fin")>>}
        files == (INBOX \o <<S("Album"), S("1.mp3")>> :> "f1")
                 @@ (INBOX \o <<S("Album"), S("2.mp3")>> :> "f2")
                 @@ (INBOX \o <<S("Album"), S("3.mp3")>> :> "f3")
                 @@ (INBOX \o <<S("build"), S("x.js")>> :> "f4")
                 @@ (INBOX \o <<S("z.txt")>> :> "f5")
                 @@ (DOCS \o <<S("Fin"), S("1.mp3")>> :> "f6")
    IN [d \in dirs |-> "dir"] @@ files

LooseTree ==
    LET dirs == {ROOT, INBOX, DOCS, MEDIA, PROJ}
        files == (INBOX \o <<S("1.mp3")>> :> "f1")
                 @@ (INBOX \o <<S("2.mp3")>> :> "f2")
                 @@ (INBOX \o <<S("3.mp3")>> :> "f3")
    IN [d \in dirs |-> "dir"] @@ files

\* DropTree: a loose file next to the reserved drop folder, which holds a file
DropTree ==
    LET dirs == {ROOT, INBOX, DOCS, MEDIA, PROJ, INBOX \o <<S("_moved_today")>>}
        files == (INBOX \o <<S("z.txt")>> :> "f5")
                 @@ (INBOX \o <<S("_moved_today"), S("x.js")>> :> "f4")
    IN [d \in dirs |-> "dir"] @@ files

StartTrees == {AlbumTree, LooseTree, DropTree}

\* run(), queue init: the inbox's entries that are not hidden, not
\* "_moved_today" and not symlinks, sorted by lower-cased name
InitialQueue(f) ==
    SortedBy(LowerOrder,
             {q \in Children(f, INBOX) :
                ~StartsWithDot(q[Len(q)]) /\ q[Len(q)] # S("_moved_today")
                /\ ~IsLink(f, q)})

\* What the model server can answer to one request: a completion text, or
\* no usable answer at all (HTTP errors, timeouts) after the retries
ReplyText(j) == [ok |-> TRUE, text |-> json_dumps(j)]

PlanOf(acts) == JObj(S("actions") :> acts)

ReplyActions ==
    LET str(p) == JStr(PathStr(p))
        doc == JStr(S("Documents"))
        fin == JStr(S("Fin"))
        album == INBOX \o <<S("Album")>>
    IN {JAct(JStr(S("inspect_file")), JNull, JNull, JNull, JNull, JNull),
        JAct(JStr(S("inspect_file")), str(INBOX \o <<S("3.mp3")>>),
             JNull, JNull, JNull, JNull),
        JAct(JStr(S("inspect_file")), JStr(<<SEP, "INBOX", SEP, SEP, "3.mp3">>),
             JNull, JNull, JNull, JNull),
        JAct(JStr(S("inspect_file")), str(INBOX \o <<S("build"), S("x.js")>>),
             JNull, JNull, JNull, JNull),
        JAct(JStr(S("list_dir")), str(album), JNull, JNull, JNull, JNull),
        JAct(JStr(S("list_dir")), str(INBOX \o <<S("_moved_today")>>),
             JNull, JNull, JNull, JNull),
        JAct(JStr(S("plan_move")), JNull, JNull, doc, fin, JNull),
        JAct(JStr(S("plan_move")), JNull, JNull, doc, JStr(<<SEP, SP, SEP>>), JNull),
        JAct(JStr(S("plan_move")), JNull, JNull, doc,
             JStr(<<"Fin", SEP, "1.mp3">>), JNull),
        JAct(JStr(S("plan_move")), JNull, str(album), doc, fin, JNull),
        JAct(JStr(S("plan_move")), JNull, str(album \o <<S("2.mp3")>>), doc, fin,
             JNull),
        JAct(JStr(S("plan_move")), JNull, str(album \o <<S("3.mp3")>>), doc, fin,
             JNull),
        JAct(JStr(S("plan_move")), JNull, str(INBOX \o <<S("build"), S("x.js")>>),
             doc, fin, JNull)}

\* A reply with two plan_move actions: the head to Documents/Fin, then
\* another file to Media/Music
TwoMoves ==
    JList(<<JAct(JStr(S("plan_move")), JNull, JNull, JStr(S("Documents")),
                 JStr(S("Fin")), JNull),
            JAct(JStr(S("plan_move")), JNull,
                 JStr(PathStr(INBOX \o <<S("z.txt")>>)), JStr(S("Media")),
                 JStr(S("Music")), JNull)>>)

Replies ==
    {ReplyText(PlanOf(JList(<<a>>))) : a \in ReplyActions}
    \cup {ReplyText(PlanOf(TwoMoves)),
          ReplyText(PlanOf(JNum)),
          [ok |-> TRUE, text |-> <<"Sure", SP, "thing">>],
          [ok |-> FALSE, text |-> <<>>]}

\* llm_json: the plan of the first usable answer, or the error plan
llm_json(reply) ==
    IF reply.ok THEN _json_coerce(Strip(reply.text))
    ELSE ErrorPlan("llm_400_or_timeout")

\* The paths a queue of the model can hold
QueuePaths ==
    {q \in UNION {DOMAIN t : t \in StartTrees} : Under(INBOX, q) /\ q # INBOX}

ToolsOf(acts, tools) == SelectSeq(acts, LAMBDA a : a.tool \in tools)

\* sanitize_actions(plan.get("actions") or [], key, allowed_labels, _log):
\* for each target, the results the replies can lead to
SaneSets ==
    [k \in QueuePaths |->
        {sanitize_actions(Get(llm_json(r), "actions"), PathStr(k),
                          allowed_root_names) : r \in Replies}]

\* lines 303-306 and _ask_decide: the plan_move actions of the first reply
\* or, when it has none, of a second one asked after a policy hint.  `llm`
\* counts the calls of llm_json.
\* A faulty variant of AsksOf that asks a second time whatever the first
\* reply held, and executes the second answer
AsksTwice(sanes) ==
    LET moves(san) == ToolsOf(san.sane, {"plan_move"})
        call(san, hinted) ==
            [hinted |-> hinted, raised |-> san.raised, moves |-> Len(moves(san))]
    IN {[raised |-> s2.raised, moves |-> moves(s2), llm |-> 2,
         calls |-> <<call(s1, FALSE), call(s2, TRUE)>>] :
            s1 \in {x \in sanes : ~x.raised}, s2 \in sanes}
       \cup {[raised |-> TRUE, moves |-> <<>>, llm |-> 1,
              calls |-> <<call(san, FALSE)>>] : san \in {x \in sanes : x.raised}}

AsksOf(sanes) ==
    LET moves(san) == ToolsOf(san.sane, {"plan_move"})
        call(san, hinted) ==
            [hinted |-> hinted, raised |-> san.raised, moves |-> Len(moves(san))]
    IN {[raised |-> san.raised, moves |-> moves(san), llm |-> 1,
         calls |-> <<call(san, FALSE)>>] :
            san \in {x \in sanes : x.raised \/ moves(x) # <<>>}}
       \cup {[raised |-> san.raised, moves |-> moves(san), llm |-> 2,
              calls |-> <<call(CHOOSE x \in sanes : ~x.raised /\ moves(x) = <<>>,
                               FALSE),
                          call(san, TRUE)>>] :
                san \in IF \E x \in sanes : ~x.raised /\ moves(x) = <<>>
                        THEN sanes ELSE {}}

AskTable == [k \in QueuePaths |-> AsksOf(SaneSets[k])]

Running == pc = "run" /\ queue # <<>> /\ step < MAX_STEPS

StageOf(k) == IF k \in DOMAIN stage THEN stage[k] ELSE ST_LIGHT
CountOf(counter, k) == IF k \in DOMAIN counter THEN counter[k] ELSE 0

\* any(m.get("tool") == "list_dir" and m.get("path") == key for m in mem[-64:])
ListedRecently(k) ==
    \E i \in 1..Len(mem) :
        i > Len(mem) - MEM_WINDOW /\ mem[i].tool = "list_dir" /\ mem[i].path = k

\* sorted(kids) of a listing, after _keep
\* A faulty variant of Kids without the _keep filter
KidsUnkept(f, p) == SortedBy(StringOrder, tool_list_dir(f, p))

Kids(f, p) ==
    SortedBy(StringOrder,
             {q \in tool_list_dir(f, p) :
                ~StartsWithDot(q[Len(q)]) /\ ~_is_in_dep_dir(q)})

\* A faulty variant of Rotate that drops the head
RotateDrop(q) == Tail(q)

\* queue.rotate(-1)
Rotate(q) == Tail(q) \o <<Head(q)>>

NoMove == [called |-> FALSE]

\* The record of a step: its branch, the head it worked on, the queue it
\* found, the model calls and the tool it used
StepRec(kind, llm, tool, move) ==
    [kind |-> kind, target |-> queue[1], qbefore |-> queue, llm |-> llm,
     tool |-> tool, move |-> move]

\* A faulty variant of SkipDependencyDir that defers the head by a rotation
SkipByRotation ==
    /\ Running
    /\ _is_in_dep_dir(queue[1])
    /\ step' = step + 1
    /\ queue' = Rotate(queue)
    /\ last' = StepRec("skip_dependency_dir", 0, "none", NoMove)
    /\ UNCHANGED <<stage, inspected, mem, fs, fs0, coh, escalated, expStep,
                   fails, pc, hin, hout, hpc>>

\* lines 173-177: the head lies in a dependency directory
SkipDependencyDir ==
    /\ Running
    /\ _is_in_dep_dir(queue[1])
    /\ step' = step + 1
    /\ queue' = Tail(queue)
    /\ last' = StepRec("skip_dependency_dir", 0, "none", NoMove)
    /\ UNCHANGED <<stage, inspected, mem, fs, fs0, coh, escalated, expStep,
                   fails, pc, hin, hout, hpc>>

\* lines 182-200: a directory not listed lately is replaced by its entries
ExpandDir ==
    /\ Running
    /\ ~_is_in_dep_dir(queue[1])
    /\ IsDir(fs, queue[1]) /\ ~ListedRecently(queue[1])
    /\ step' = step + 1
    /\ mem' = Append(mem, [tool |-> "list_dir", path |-> queue[1]])
    /\ queue' = Kids(fs, queue[1]) \o Tail(queue)
    /\ last' = StepRec("expand", 0, "list_dir", NoMove)
    /\ UNCHANGED <<stage, inspected, fs, fs0, coh, escalated, expStep, fails,
                   pc, hin, hout, hpc>>

\* A faulty variant of AtStage that does not look at the recorded stage
AtAnyStage(st) ==
    /\ Running
    /\ ~_is_in_dep_dir(queue[1])
    /\ ~(IsDir(fs, queue[1]) /\ ~ListedRecently(queue[1]))

AtStage(st) ==
    /\ Running
    /\ ~_is_in_dep_dir(queue[1])
    /\ ~(IsDir(fs, queue[1]) /\ ~ListedRecently(queue[1]))
    /\ StageOf(queue[1]) = st

\* lines 217-267: what a LIGHT step does with the model's reply
LightOutcome(san) ==
    LET key == queue[1]
        keystr == PathStr(key)
        same == [kind |-> "", queue |-> queue, stage |-> stage,
                 inspected |-> inspected, mem |-> mem, tool |-> "none"]
        acts0 == ToolsOf(san.sane, {"inspect_file", "list_dir"})
        dflt == IsFile(fs, key) /\ CountOf(inspected, keystr) = 0
    IN IF san.raised THEN [same EXCEPT !.kind = "crash"]
       ELSE IF acts0 = <<>> /\ ~dflt
       THEN [same EXCEPT !.kind = "no_progress_rotate", !.queue = Rotate(queue)]
       ELSE
       LET a == IF acts0 = <<>>
                THEN [tool |-> "inspect_file", path |-> JStr(keystr)]
                ELSE acts0[1]
       IN IF a.path.t # "str" THEN [same EXCEPT !.kind = "crash"]
          ELSE
          LET p == fs_norm_path(a.path.s)
              staged == (key :> ST_DECIDE) @@ stage
          IN IF _is_in_dep_dir(p)
             THEN [same EXCEPT !.kind = "dep_rotate", !.queue = Rotate(queue)]
             ELSE IF a.tool = "inspect_file"
             THEN IF CountOf(inspected, a.path.s) >= INSPECT_CAP_PER_FILE
                  THEN [same EXCEPT !.kind = "inspect_cap", !.stage = staged]
                  ELSE [kind |-> "inspect_file", queue |-> queue,
                        stage |-> staged,
                        inspected |-> (a.path.s :> CountOf(inspected, a.path.s) + 1)
                                      @@ inspected,
                        mem |-> Append(mem, [tool |-> "inspect_file", path |-> p]),
                        tool |-> "inspect_file"]
             ELSE [kind |-> "list_dir",
                   queue |-> Kids(fs, p) \o Tail(queue),
                   stage |-> staged, inspected |-> inspected,
                   mem |-> Append(mem, [tool |-> "list_dir", path |-> p]),
                   tool |-> "list_dir"]

LightStep(kind) ==
    /\ AtStage(ST_LIGHT)
    /\ \E san \in SaneSets[queue[1]] :
        \E o \in {LightOutcome(san)} :
           /\ o.kind = kind
           /\ queue' = o.queue /\ stage' = o.stage /\ inspected' = o.inspected
           /\ mem' = o.mem
           /\ last' = StepRec("light_" \o kind, 1, o.tool, NoMove)
    /\ step' = step + 1
    /\ UNCHANGED <<fs, fs0, coh, escalated, expStep, fails, hin, hout, hpc>>

\* An exception that leaves run() ends the run; any other branch goes on
LightCrash == LightStep("crash") /\ pc' = "crashed"
LightNoProgress == LightStep("no_progress_rotate") /\ UNCHANGED pc
LightDepRotate == LightStep("dep_rotate") /\ UNCHANGED pc
LightInspectCap == LightStep("inspect_cap") /\ UNCHANGED pc
LightInspect == LightStep("inspect_file") /\ UNCHANGED pc
LightListDir == LightStep("list_dir") /\ UNCHANGED pc

\* lines 335-361: the cohesion vote and the escalation to the parent folder
Escalate(a, sub0, parent, coh1) ==
    With(consensus(coh1, escalated, fs, parent), LAMBDA cons :
    With(cons # NoConsensus /\ IsFile(fs, a.src) /\ parent # INBOX, LAMBDA up :
        [kind |-> IF path_exists(fs, IF up THEN parent ELSE a.src) THEN "move"
                  ELSE "invalid_plan_move",
         coh |-> coh1, up |-> up,
         src |-> IF up THEN parent ELSE a.src,
         dest_root |-> IF up THEN cons[1] ELSE a.destination_root,
         sub |-> IF up THEN cons[2] ELSE sub0]))

\* lines 316-367: the checks of the first plan_move
Prepare(a) ==
    IF a.destination_root = <<>> \/ ~path_exists(fs, a.src)
    THEN [kind |-> "invalid_plan_move", coh |-> coh, up |-> FALSE]
    ELSE IF _is_in_dep_dir(a.src)
    THEN [kind |-> "dep_rotate", coh |-> coh, up |-> FALSE]
    ELSE With(Strip(a.subpath), LAMBDA sub0 :
            Escalate(a, sub0, Parent(a.src),
                     note(coh, Parent(a.src), a.src, a.destination_root, sub0)))

\* lines 309-313 and 316-367: the branch a DECIDE step takes
Decision(ask) ==
    IF ask.raised THEN [kind |-> "crash"]
    ELSE IF ask.moves = <<>> THEN [kind |-> "decide_noncompliance"]
    ELSE Prepare(ask.moves[1])

\* lines 379-400: the move and the queue after it
Moved(pre, final_name, res, purged) ==
    [queue |-> IF purged # <<>> /\ purged[1] = pre.src THEN Tail(purged)
               ELSE purged,
     fs |-> res.fs,
     move |-> [called |-> TRUE, src |-> pre.src, root |-> pre.dest_root,
               subpath |-> pre.sub, filename |-> final_name,
               escalated |-> pre.up, error |-> res.error,
               moved_to |-> res.moved_to, real |-> res.real]]

Execute(a, pre) ==
    With(IF pre.src # <<>> /\ pre.src[Len(pre.src)] # <<>>
         THEN safe_ascii(pre.src[Len(pre.src)])
         ELSE IF a.filename # <<>> THEN a.filename
         ELSE S("unnamed"), LAMBDA final_name :
        Moved(pre, final_name,
              tool_plan_move(fs, pre.src, pre.dest_root, pre.sub, final_name),
              purge_queue_under(queue, pre.src)))

\* What a DECIDE step has asked: its calls of _ask_decide and the action at
\* moves[0]
Asked(ask) ==
    [calls |-> ask.calls,
     first |-> IF ask.moves = <<>> THEN NoMove
               ELSE [called |-> FALSE, src |-> ask.moves[1].src,
                     destination_root |-> ask.moves[1].destination_root]]

\* lines 270-400: a DECIDE step
DecideStep(kind) ==
    /\ AtStage(ST_DECIDE)
    /\ \E ask \in AskTable[queue[1]] :
        \E pre \in {Decision(ask)} :
        /\ pre.kind = kind
        /\ mem' = IF ask.llm = 2
                  THEN Append(mem, [tool |-> "policy_hint", note |-> "must_move"])
                  ELSE mem
        /\ IF kind \in {"crash", "decide_noncompliance"}
           THEN /\ queue' = IF kind = "crash" THEN queue ELSE Rotate(queue)
                /\ fails' = IF kind = "crash" THEN fails
                            ELSE (queue[1] :> CountOf(fails, queue[1]) + 1) @@ fails
                /\ last' = StepRec("decide_" \o kind, ask.llm, "none", NoMove)
                           @@ Asked(ask)
                /\ UNCHANGED <<fs, coh, escalated>>
           ELSE /\ coh' = pre.coh
                /\ escalated' = IF pre.up
                                THEN escalated \cup {Parent(ask.moves[1].src)}
                                ELSE escalated
                /\ IF kind = "move"
                   THEN \E o \in {Execute(ask.moves[1], pre)} :
                           /\ queue' = o.queue
                           /\ fs' = o.fs
                           /\ fails' = [k \in DOMAIN fails \ {queue[1]} |->
                                           fails[k]]
                           /\ last' = StepRec("decide_move", ask.llm,
                                              "plan_move", o.move)
                                      @@ Asked(ask)
                   ELSE /\ queue' = Rotate(queue)
                        /\ last' = StepRec("decide_" \o kind, ask.llm, "none",
                                           NoMove) @@ Asked(ask)
                        /\ UNCHANGED <<fs, fails>>
    /\ step' = step + 1
    /\ expStep' = IF step + 1 >= expStep THEN step + 1 + SNAP_TTL_STEPS
                  ELSE expStep
    /\ UNCHANGED <<stage, inspected, fs0, hin, hout, hpc>>

DecideCrash == DecideStep("crash") /\ pc' = "crashed"
DecideNoncompliance == DecideStep("decide_noncompliance") /\ UNCHANGED pc
DecideInvalid == DecideStep("invalid_plan_move") /\ UNCHANGED pc
DecideDepRotate == DecideStep("dep_rotate") /\ UNCHANGED pc
DecideMove == DecideStep("move") /\ UNCHANGED pc

\* line 169 is false: the run is over
Finish ==
    /\ pc = "run"
    /\ ~(queue # <<>> /\ step < MAX_STEPS)
    /\ pc' = "done"
    /\ UNCHANGED <<queue, stage, inspected, mem, step, fs, fs0, coh, escalated,
                   expStep, fails, last, hin, hout, hpc>>

NoStep == [kind |-> "none"]

Init ==
    /\ fs \in StartTrees
    /\ fs0 = fs
    /\ queue = InitialQueue(fs)
    /\ stage = <<>> /\ inspected = <<>> /\ mem = <<>> /\ step = 0
    /\ coh = <<>> /\ escalated = {} /\ expStep = 0 /\ fails = <<>>
    /\ pc = "run" /\ last = NoStep
    /\ hin = NoStep /\ hout = NoStep /\ hpc = "off"

Next ==
    \/ SkipDependencyDir
    \/ ExpandDir
    \/ LightCrash
    \/ LightNoProgress
    \/ LightDepRotate
    \/ LightInspectCap
    \/ LightInspect
    \/ LightListDir
    \/ DecideCrash
    \/ DecideNoncompliance
    \/ DecideInvalid
    \/ DecideDepRotate
    \/ DecideMove
    \/ Finish

Spec == Init /\ [][Next]_vars

(***************************************************************************)
(* Properties of the run                                                   *)
(***************************************************************************)
\* C1: every plan_move the run executes has a subpath with at least one
\* non-empty segment, so that nothing is moved into a destination root itself.
C1_NoRootDumping ==
    last.kind = "decide_move" => SelectNonEmpty(Split(last.move.subpath)) # <<>>

\* C3: no data loss: every file the vault held when the run started is still
\* somewhere in the vault.
C3_NoDataLoss == FilesOf(fs0) \subseteq FilesOf(fs)

\* C6: no model response is fatal to the run: no exception caused by the
\* model's output leaves the loop.
C6_NeverFatal == pc # "crashed"

\* C8: when the head of the queue has a denylisted segment, the step removes
\* it from the queue, calls the model not once and runs no tool.
C8_DepHeadSkipped ==
    (last.kind # "none" /\ _is_in_dep_dir(last.target)) =>
        /\ last.kind = "skip_dependency_dir"
        /\ last.llm = 0 /\ last.tool = "none"
        /\ queue = Tail(last.qbefore)

\* C8 witness: a dependency folder at the head, with other items behind it,
\* has just been skipped
C8_Witness ==
    /\ last.kind = "skip_dependency_dir"
    /\ _is_in_dep_dir(last.target)
    /\ Len(last.qbefore) >= 2
    /\ queue = Tail(last.qbefore)

\* C9: the loop executes at most MAX_STEPS steps and stops exactly when the
\* queue is empty or the step counter has reached MAX_STEPS.
C9_StopsAtEnd ==
    /\ step <= MAX_STEPS
    /\ pc # "run" => (queue = <<>> \/ step = MAX_STEPS)
    /\ (pc = "run" /\ (queue = <<>> \/ step = MAX_STEPS)) => ENABLED Finish

\* C10: after a move of path P the queue holds no entry equal to P or under
\* P, and the other entries are all there, in the order they had.
C10_QueuePurged ==
    last.kind = "decide_move" =>
        queue = SelectSeq(last.qbefore, LAMBDA e : ~IsPrefix(last.move.src, e))

\* C10 witness: a folder was moved while entries under it and at least two
\* entries outside it were queued
C10_Witness ==
    /\ last.kind = "decide_move"
    /\ ~last.move.error
    /\ \E i \in 1..Len(last.qbefore) :
          IsPrefix(last.move.src, last.qbefore[i])
          /\ last.qbefore[i] # last.move.src
    /\ Len(queue) >= 2

\* C14: when the move primitive reports an error for the plan_move of a
\* step, the run goes on and the target stays in the queue, deferred to the
\* back.
C14_FailedMoveDeferred ==
    (last.kind = "decide_move" /\ last.move.error) =>
        /\ pc # "crashed"
        /\ queue = Rotate(last.qbefore)

\* The steps that end without a move because the model's output was
\* unusable or unsafe
DeferredKinds ==
    {"light_no_progress_rotate", "light_dep_rotate",
     "decide_decide_noncompliance", "decide_invalid_plan_move",
     "decide_dep_rotate"}

LightKinds ==
    {"light_crash", "light_no_progress_rotate", "light_dep_rotate",
     "light_inspect_cap", "light_inspect_file", "light_list_dir"}

\* C25: a plan_move is executed only in a step where the stage recorded for
\* the head target is DECIDE; a LIGHT step executes no move and leaves the
\* filesystem as it is; the stage of a target never goes back from DECIDE.
C25_TwoStage ==
    [][/\ (fs' # fs \/ (step' # step /\ last'.move.called)) =>
             /\ StageOf(queue[1]) = ST_DECIDE
             /\ last'.kind = "decide_move"
       /\ (step' # step /\ StageOf(queue[1]) = ST_LIGHT) =>
             /\ fs' = fs
             /\ ~last'.move.called
       /\ (step' # step /\ last'.kind \in LightKinds) => StageOf(queue[1]) = ST_LIGHT
       /\ \A k \in DOMAIN stage :
             stage[k] = ST_DECIDE => k \in DOMAIN stage' /\ stage'[k] = ST_DECIDE
      ]_vars

C25_Witness ==
    /\ last.kind = "decide_move" /\ ~last.move.error
    /\ StageOf(last.target) = ST_DECIDE
    /\ fs # fs0
    /\ \E k \in DOMAIN stage : k # last.target /\ stage[k] = ST_DECIDE

\* C26: every executed move has as its source the queue head of the step
\* or, after an escalation, the parent folder of that head.
C26_MoveSourceIsHead ==
    last.kind = "decide_move" =>
        \/ last.move.src = last.target
        \/ last.move.escalated /\ last.move.src = Parent(last.target)

Queued(q) == {q[i] : i \in DOMAIN q}

\* C27: an item leaves the queue only when it is a directory replaced by its
\* entries, when it lies in a dependency directory, or when a move of the
\* item or of one of its ancestors has been executed; a file is never dropped
\* by a read-only LIGHT action.
C27_LeavesOnlyWhenSettled ==
    [][\A e \in Queued(queue) \ Queued(queue') :
          \/ IsDir(fs, e) /\ e = queue[1]
                /\ last'.kind \in {"expand", "light_list_dir"}
          \/ _is_in_dep_dir(e) /\ e = queue[1]
                /\ last'.kind = "skip_dependency_dir"
          \/ last'.kind = "decide_move" /\ Under(last'.move.src, e)
      ]_vars

\* One of the segments of p is a denylisted name
HasDepSegment(p) == \E i \in DOMAIN p : p[i] \in {S(n) : n \in DEP_DIR_NAMES}

\* C28: inspect_file, list_dir and plan_move never run on a path with a
\* denylisted dependency segment, also when the model names such a path while
\* the head is outside and also after an escalation; the step that meets such
\* a path runs no tool and rotates the head to the back of the queue.
C28_DependencyGuard ==
    /\ \A i \in DOMAIN mem :
          mem[i].tool \in {"inspect_file", "list_dir"} => ~HasDepSegment(mem[i].path)
    /\ (last.kind # "none" /\ last.move.called) => ~HasDepSegment(last.move.src)
    /\ last.kind \in {"light_dep_rotate", "decide_dep_rotate"} =>
          /\ ~HasDepSegment(last.target)
          /\ last.tool = "none" /\ ~last.move.called
          /\ queue = Rotate(last.qbefore)

C28_Witness ==
    /\ last.kind = "decide_dep_rotate"
    /\ ~HasDepSegment(last.target)
    /\ \E i \in DOMAIN mem : mem[i].tool = "inspect_file"

DecideKinds ==
    {"decide_crash", "decide_decide_noncompliance", "decide_invalid_plan_move",
     "decide_dep_rotate", "decide_move"}

PolicyHint == [tool |-> "policy_hint", note |-> "must_move"]

\* The files of f that are not at their place in g any more
Displaced(f, g) == {p \in DOMAIN f : IsFile(f, p) /\ ~(p \in DOMAIN g /\ g[p] = f[p])}

\* C30: a DECIDE step calls the model at most twice; the second call is made
\* only when the first gave no valid plan_move, and only after the policy
\* hint is in memory; at most one move is executed, the first plan_move of
\* the attempt that gave one; when both attempts give none, the failure
\* counter of the item goes up by one, nothing is moved and the item is
\* rotated to the back.
C30_DecideAttempts ==
    [][(step' # step /\ last'.kind \in DecideKinds) =>
        LET n == last'.llm
            calls == last'.calls
        IN /\ n \in {1, 2} /\ Len(calls) = n
           /\ ~calls[1].hinted
           /\ n = 1 => mem' = mem
           /\ n = 2 => /\ calls[1].moves = 0 /\ ~calls[1].raised
                       /\ calls[2].hinted
                       /\ mem' = Append(mem, PolicyHint)
           /\ last'.move.called =>
                 /\ calls[n].moves >= 1
                 /\ last'.first.src \in {last'.move.src} \cup
                       {q \in DOMAIN fs : Parent(q) = last'.move.src
                                          /\ last'.move.escalated}
                 /\ \A p \in Displaced(fs, fs') :
                       Under(last'.move.src, p) \/ Under(last'.move.real, p)
           /\ ~last'.move.called => fs' = fs
           /\ last'.kind = "decide_decide_noncompliance" <=>
                 (calls[n].moves = 0 /\ ~calls[n].raised)
           /\ last'.kind = "decide_decide_noncompliance" =>
                 /\ n = 2
                 /\ fails' = (queue[1] :> CountOf(fails, queue[1]) + 1) @@ fails
                 /\ fs' = fs /\ ~last'.move.called
                 /\ queue' = Rotate(queue)
      ]_vars

C30_Witness ==
    /\ last.kind = "decide_move" /\ last.llm = 2
    /\ last.calls[2].moves = 2
    /\ mem # <<>> /\ mem[Len(mem)] = PolicyHint
    /\ last.move.src = last.target /\ ~last.move.error
    /\ \E k \in DOMAIN fails : fails[k] >= 1

\* The inspections of the file at p that the run has made
Inspections(p) ==
    {i \in DOMAIN mem : mem[i].tool = "inspect_file" /\ mem[i].path = p}

\* C31: no file is inspected more than INSPECT_CAP_PER_FILE times in a run;
\* a LIGHT inspect action on a path that has reached the cap inspects nothing
\* and sends the target to DECIDE.
C31_InspectCap ==
    /\ \A p \in DOMAIN fs0 : Cardinality(Inspections(p)) <= INSPECT_CAP_PER_FILE
    /\ last.kind = "light_inspect_cap" =>
          /\ last.tool = "none"
          /\ StageOf(last.target) = ST_DECIDE

\* p is named _moved_today or lies under a folder of that name
InDropFolder(p) == \E k \in 1..Len(p) : p[k] = S("_moved_today")

\* C22: no path named _moved_today or lying under it is ever enqueued,
\* listed, inspected or moved by the orchestrator, whatever paths the model
\* names in its actions.
C22_DropFolderExcluded ==
    /\ \A i \in 1..Len(queue) : ~InDropFolder(queue[i])
    /\ \A i \in 1..Len(mem) :
          mem[i].tool \in {"inspect_file", "list_dir"} => ~InDropFolder(mem[i].path)
    /\ last.kind = "decide_move" => ~InDropFolder(last.move.src)

(***************************************************************************)
CoopDecideMove ==
    /\ DecideMove
    /\ ~last'.move.error
    /\ \/ last'.move.src = last'.target
       \/ last'.move.escalated /\ last'.move.src = Parent(last'.target)

NextProgress ==
    \/ SkipDependencyDir
    \/ ExpandDir
    \/ LightCrash
    \/ LightNoProgress
    \/ LightDepRotate
    \/ LightInspectCap
    \/ LightInspect
    \/ LightListDir
    \/ CoopDecideMove
    \/ Finish

\* One turn of the while loop of run(): it counts a step, or it is the exit
Iteration ==
    /\ pc = "run"
    /\ \/ step' = step + 1 /\ pc' \in {"run", "crashed"}
       \/ step' = step /\ pc' = "done"

\* The loop does not pause: a run that is not over takes its next turn.  A
\* behaviour in which the model has no cooperative answer left is not a run
\* of the hypothesis and is not fair.
SpecProgress == Init /\ [][NextProgress]_vars /\ WF_<<step, pc>>(Iteration)

\* C16: forward progress: when every DECIDE step gets a valid plan_move for
\* the current target and the move succeeds, every queued item is eventually
\* removed and the queue becomes empty, unless the step budget runs out first.
C16_QueueDrains == <>(queue = <<>> \/ step = MAX_STEPS)

(***************************************************************************)
(* Function harnesses: the argument is drawn in the initial state and one  *)
(* action applies the function to it.  The run's own state stays idle.     *)
(***************************************************************************)
RunIdle ==
    /\ queue = <<>> /\ stage = <<>> /\ inspected = <<>> /\ mem = <<>>
    /\ step = 0 /\ fs = <<>> /\ fs0 = <<>> /\ coh = <<>> /\ escalated = {}
    /\ expStep = 0 /\ fails = <<>> /\ pc = "off" /\ last = NoStep

runVars == <<queue, stage, inspected, mem, step, fs, fs0, coh, escalated,
             expStep, fails, pc, last>>

\* A vault for the move primitive: an inbox with a file and a folder, and a
\* destination folder that already holds files
MoveTree ==
    LET dirs == {ROOT, INBOX, DOCS, MEDIA, PROJ,
                 INBOX \o <<S("X")>>, DOCS \o <<S("Fin")>>}
        files == (INBOX \o <<S("a.txt")>> :> "f1")
                 @@ (INBOX \o <<S("X"), S("b.txt")>> :> "f2")
                 @@ (DOCS \o <<S("Fin"), S("k.txt")>> :> "f3")
                 @@ (DOCS \o <<S("z.txt")>> :> "f4")
                 @@ (MEDIA \o <<S("m.txt")>> :> "f5")
    IN [d \in dirs |-> "dir"] @@ files

MoveSrcs ==
    {INBOX \o <<S("a.txt")>>, INBOX \o <<S("X")>>, INBOX \o <<S("gone")>>}
MoveRoots == {S("Documents"), S("Media"), S("docs")}
MoveSubpaths ==
    {<<>>, S("Fin"), <<"Fin", SEP, "2023">>, S(".."), <<"..", SEP, "..">>,
     <<SP>>, <<SEP>>, <<"Fin", SEP, "k.txt">>}
MoveNames ==
    {S("a.txt"), S("k.txt"), S(".."), S("."), <<"a", SEP, "b">>, <<SP>>, S("Fin")}

InitMove ==
    /\ RunIdle
    /\ hin \in [fs : {MoveTree}, src : MoveSrcs, root : MoveRoots,
                subpath : MoveSubpaths, filename : MoveNames]
    /\ hout = NoStep
    /\ hpc = "ready"

MoveCall ==
    /\ hpc = "ready"
    /\ hout' = tool_plan_move(hin.fs, hin.src, hin.root, hin.subpath, hin.filename)
    /\ hpc' = "called"
    /\ UNCHANGED <<hin, runVars>>

NextMove == MoveCall

SpecMove == InitMove /\ [][NextMove]_vars

\* The paths a call created, overwrote or removed, the moved source aside
Touched(f, g, src, error) ==
    {p \in DOMAIN f \cup DOMAIN g :
        /\ (p \notin DOMAIN f \/ p \notin DOMAIN g \/ f[p] # g[p])
        /\ ~(~error /\ p \in DOMAIN f /\ Under(src, p))}

\* C2: every path plan_move creates, overwrites or removes is a proper
\* descendant of the directory of the chosen destination root.
C2_Claim ==
    (hpc = "called" /\ hin.root \in DOMAIN _ROOT_MAP) =>
        \A p \in Touched(hin.fs, hout.fs, hin.src, hout.error) :
            Under(_ROOT_MAP[hin.root], p) /\ p # _ROOT_MAP[hin.root]

\* <root directory>/<subpath>/<sanitized filename>
PlannedPath(root, subpath, filename) ==
    Append(DestDir(root, subpath), safe_ascii(filename))

\* C17: for an existing file src under the inbox and a valid root label, a
\* successful plan_move leaves the file at <root directory>/<subpath>/
\* <sanitized filename>, returns that path, and leaves nothing at src.
C17_Claim ==
    (/\ hpc = "called"
     /\ IsFile(hin.fs, hin.src) /\ Under(INBOX, hin.src)
     /\ hin.root \in DOMAIN _ROOT_MAP
     /\ ~hout.error) =>
        /\ hout.moved_to = PathStr(PlannedPath(hin.root, hin.subpath, hin.filename))
        /\ IsFile(hout.fs, PlannedPath(hin.root, hin.subpath, hin.filename))
        /\ hout.fs[PlannedPath(hin.root, hin.subpath, hin.filename)] = hin.fs[hin.src]
        /\ ~Exists(hout.fs, hin.src)

\* C18: plan_move never raises: for every input (unknown destination_root,
\* missing source, destination that exists as a file or as a directory) it
\* returns a destination path with no error, or no destination with an error.
C18_NeverRaises ==
    hpc = "called" =>
        /\ ~hout.raised
        /\ IF hout.error THEN hout.moved_to = <<>> ELSE hout.moved_to # <<>>

C18_Witness ==
    /\ hpc = "called"
    /\ hin.src = INBOX \o <<S("X")>>
    /\ hin.root = S("Documents") /\ hin.subpath = <<"Fin", SEP, "k.txt">>
    /\ hout.error /\ hout.moved_to = <<>>

(***************************************************************************)
(* Harness of sanitize_actions                                             *)
(***************************************************************************)
RawRoots ==
    {JNull, JNum} \cup
    {JStr(r) : r \in {S("Documents"), S("documents"), <<SP, "Media", SP>>,
                      <<"Documents", SEP, "Fin">>, <<"DOCUMENTS", SP, SEP>>,
                      <<SEP, SP, "Documents">>, S("Other"),
                      <<"Other", SEP, "Documents">>, <<"projects", SEP>>,
                      <<"documents", SP, SEP, "x">>}}
RawSubs ==
    {JNull, JNum} \cup
    {JStr(r) : r \in {S("Fin"), <<"Fin", SEP, "2023">>, <<SEP, SP, SEP>>,
                      <<SP>>, S("..")}}
RawSrcs ==
    {JNull, JNum} \cup
    {JStr(r) : r \in {<<SEP, "INBOX", SEP, "X", SEP, "a.txt">>,
                      <<SEP, "Documents", SEP, "z.txt">>}}
RawNames == {JNull, JStr(S("..")), JStr(<<"a", BAD, "b">>)}

RawMoves ==
    {JAct(JStr(S("plan_move")), JNull, src, root, sub, name) :
        src \in RawSrcs, root \in RawRoots, sub \in RawSubs, name \in RawNames}

RawOthers ==
    {JNum, JStr(S("plan_move")), JList(<<>>)} \cup
    {JAct(tool, path, JNull, JNull, JNull, JNull) :
        tool \in {JNull, JNum, JStr(S("bogus")), JStr(S("inspect_file")),
                  JStr(<<SP, "list_dir">>)},
        path \in {JNull, JNum, JStr(<<SEP, "INBOX", SEP, "X">>)}}

\* A few entries to build lists of two from
RawPairable ==
    {JNum,
     JAct(JStr(S("inspect_file")), JNull, JNull, JNull, JNull, JNull),
     JAct(JNum, JNull, JNull, JNull, JNull, JNull),
     JAct(JStr(S("plan_move")), JNull, JNull, JStr(S("Documents")),
          JStr(S("Fin")), JNull),
     JAct(JStr(S("plan_move")), JNull, JNull, JStr(S("Other")),
          JStr(S("Fin")), JNull),
     JAct(JStr(S("plan_move")), JNull, JNull,
          JStr(<<"Other", SEP, "Documents">>), JNull, JNull)}

RawActionValues ==
    {JNull, JNum, JStr(<<"a", "b">>), JList(<<>>)}
    \cup {JList(<<e>>) : e \in RawMoves \cup RawOthers}
    \cup {JList(<<d, e>>) : d \in RawPairable, e \in RawPairable}

SanitizeTarget == <<SEP, "INBOX", SEP, "a.txt">>

InitSanitize ==
    /\ RunIdle
    /\ hin \in RawActionValues
    /\ hout = NoStep
    /\ hpc = "ready"

SanitizeCall ==
    /\ hpc = "ready"
    /\ hout' = sanitize_actions(hin, SanitizeTarget, allowed_root_names)
    /\ hpc' = "called"
    /\ UNCHANGED <<hin, runVars>>

NextSanitize == SanitizeCall

SpecSanitize == InitSanitize /\ [][NextSanitize]_vars

DropEvents == {"drop_bad_action", "drop_plan_move", "invalid_plan_move"}

\* C5: sanitize_actions returns normally for entries and fields of any JSON
\* type, and every entry it rejects is reported by one log call with a reason.
C5_Claim ==
    (hpc = "called" /\ hin.t = "list") =>
        /\ ~hout.raised
        /\ Cardinality({i \in 1..Len(hout.logs) :
                           hout.logs[i].event \in DropEvents})
             = Len(hin.v) - Len(hout.sane)

\* A raw plan_move whose fields are strings or absent
IsRawMove(e) ==
    /\ e.t = "obj"
    /\ Get(e, "tool").t = "str" /\ Strip(Get(e, "tool").s) = S("plan_move")
    /\ Get(e, "destination_root").t \in {"str", "null"}

RawRootOf(e) ==
    IF Get(e, "destination_root").t = "str"
    THEN Strip(Get(e, "destination_root").s) ELSE <<>>

\* The root left by alias resolution and compound splitting is, whatever its
\* case and surrounding whitespace, none of the allowed labels
RootNotAllowed(e) ==
    _norm_key(ResolvedRoot(RawRootOf(e)).root)
        \notin {_norm_key(l) : l \in allowed_root_names}

\* C7: a raw plan_move whose destination_root, after alias resolution and
\* compound-root splitting, is not an allowed root label yields no action in
\* the sanitizer's output.
C7_InvalidRootDropped ==
    (hpc = "called" /\ hin.t = "list") =>
        \A i \in 1..Len(hin.v) :
            (IsRawMove(hin.v[i]) /\ RootNotAllowed(hin.v[i])) =>
                \A k \in 1..Len(hout.origin) : hout.origin[k] # i

\* C7 witness: a list of two was sanitized, the invalid-root move dropped and
\* the other entry kept
C7_Witness ==
    /\ hpc = "called" /\ hin.t = "list" /\ Len(hin.v) = 2
    /\ ~hout.raised
    /\ IsRawMove(hin.v[2]) /\ RootNotAllowed(hin.v[2])
    /\ RawRootOf(hin.v[2]) = <<"Other", SEP, "Documents">>
    /\ hout.origin = <<1>>

(***************************************************************************)
(* Harness of _json_coerce: texts put together from up to MaxFragments     *)
(* fragments of model output                                               *)
(***************************************************************************)
MaxFragments == 3

Fragments ==
    << <<"{", QUOTE, "actions", QUOTE, ":", "[", "]", "}">>,
       <<"{", QUOTE, "actions", QUOTE, ":", "5", "}">>,
       <<"{", QUOTE, "note", QUOTE, ":", QUOTE, "x", QUOTE, "}">>,
       <<"{", QUOTE, "note", QUOTE, ":", QUOTE, "}", QUOTE, "}">>,
       <<"{", QUOTE, "actions", QUOTE, ":", "[", "{", QUOTE, "tool", QUOTE, ":",
         QUOTE, "list_dir", QUOTE, "}">>,
       <<"{">>, <<"}">>, <<"Sure">>, <<QUOTE>>, <<"[", "5", "]">>, <<SP>>,
       <<CTRL>> >>

RECURSIVE Concat(_)
Concat(ix) ==
    IF ix = <<>> THEN <<>> ELSE Fragments[Head(ix)] \o Concat(Tail(ix))

CoerceTexts ==
    {Concat(ix) : ix \in UNION {[1..n -> 1..Len(Fragments)] : n \in 0..MaxFragments}}

InitCoerce ==
    /\ RunIdle
    /\ hin \in CoerceTexts
    /\ hout = NoStep
    /\ hpc = "ready"

CoerceCall ==
    /\ hpc = "ready"
    /\ hout' = _json_coerce(hin)
    /\ hpc' = "called"
    /\ UNCHANGED <<hin, runVars>>

NextCoerce == CoerceCall

SpecCoerce == InitCoerce /\ [][NextCoerce]_vars

\* C4: for every input text the coercer returns a dict whose `actions` field
\* is present and is a list.
C4_Claim ==
    hpc = "called" =>
        /\ hout.t = "obj"
        /\ S("actions") \in DOMAIN hout.kv
        /\ hout.kv[S("actions")].t = "list"

CanonicalRoots == {S("Documents"), S("Media"), S("Projects")}

\* The raw root of e, stripped, is "head/extra" with a head that is an alias
\* of a root when its case and surrounding whitespace are ignored
CompoundRoot(e) ==
    /\ Get(e, "destination_root").t = "str"
    /\ With(Split1(StripSep(Strip(Get(e, "destination_root").s))), LAMBDA parts :
          /\ Len(parts) = 2
          /\ S(FoldWord(Strip(parts[1])[1])) \in {S("documents"), S("media"), S("projects")}
          /\ Len(Strip(parts[1])) = 1)

\* C34: every plan_move the sanitizer returns has a destination_root that is
\* exactly a canonical root label; a raw root "Root/extra" with an alias as
\* its head gives the canonical root and the subpath extra followed by the
\* original subpath.
C34_Claim ==
    (hpc = "called" /\ ~hout.raised) =>
        /\ \A i \in DOMAIN hout.sane :
              hout.sane[i].tool = "plan_move" =>
                  hout.sane[i].destination_root \in CanonicalRoots
        /\ (hin.t = "list" /\ Len(hin.v) = 1 /\ Len(hout.sane) = 1
            /\ hout.sane[1].tool = "plan_move" /\ CompoundRoot(hin.v[1])) =>
              With(Split1(StripSep(Strip(Get(hin.v[1], "destination_root").s))),
                   LAMBDA parts :
                /\ hout.sane[1].destination_root
                     = canonical(S(FoldWord(Strip(parts[1])[1])), <<>>)
                /\ hout.sane[1].subpath
                     = Join(SelectNonEmpty(
                          <<StripSep(Strip(parts[2])),
                            StripSep(Strip(StrOr(Get(hin.v[1], "subpath"), <<>>).s))>>)))

\* The subpath of e is absent or empty once stripped, and its root brings
\* no extra part
EmptyRawSubpath(e) ==
    /\ Get(e, "subpath").t \in {"null", "str"}
    /\ StripSep(Strip(StrOr(Get(e, "subpath"), <<>>).s)) = <<>>
    /\ ~CompoundRoot(e)

\* C35: when the raw subpath of a plan_move is empty, the sanitized subpath
\* is the parent directory of the source relative to the inbox root, and
\* "Unsorted" when that parent is empty (the source lies directly in the
\* inbox root) or the source is not under the inbox.
C35_Claim ==
    (hpc = "called" /\ ~hout.raised /\ hin.t = "list" /\ Len(hin.v) = 1
     /\ Len(hout.sane) = 1 /\ hout.sane[1].tool = "plan_move"
     /\ EmptyRawSubpath(hin.v[1])) =>
        With(hout.sane[1].src, LAMBDA src :
            hout.sane[1].subpath =
                IF IsPrefix(INBOX, src) /\ Len(src) > Len(INBOX) + 1
                THEN Join(SubSeq(src, Len(INBOX) + 1, Len(src) - 1))
                ELSE S("Unsorted"))

(***************************************************************************)
(* Harness of the CohesionTracker: notes, consensus queries and the vote    *)
(* of a DECIDE step (run(), lines 316-361), in any order, on one parent     *)
(* folder of a fixed vault                                                  *)
(***************************************************************************)
TrackerParent == INBOX \o <<S("Album")>>

TrackerFiles ==
    {TrackerParent \o <<S(n)>> : n \in {"1.mp3", "2.mp3", "3.mp3", "z.txt", "x.js"}}

TrackerDests == {<<S("Documents"), S("Fin")>>, <<S("Media"), S("Music")>>}

\* A vault whose parent folder holds the five files, n more entries and,
\* when asked, one hidden entry
TrackerTree(n, hidden) ==
    LET dirs == {ROOT, INBOX, DOCS, MEDIA, PROJ, TrackerParent}
        more == {TrackerParent \o <<S(ToString(i))>> : i \in 1..n}
                \cup (IF hidden THEN {TrackerParent \o <<S(".hidden")>>} ELSE {})
    IN [d \in dirs |-> "dir"] @@ [q \in TrackerFiles \cup more |-> "f"]

\* The parent folder holds 5 entries; cap + 1 visible entries; cap visible
\* entries and a hidden one; or it is not there at all
TrackerTrees ==
    {TrackerTree(0, FALSE),
     TrackerTree(MAX_CHILDREN_CAP - 4, FALSE),
     TrackerTree(MAX_CHILDREN_CAP - 5, TRUE),
     [d \in {ROOT, INBOX, DOCS, MEDIA, PROJ} |-> "dir"]}

StatsAt(stats, parent) ==
    IF parent \in DOMAIN stats THEN stats[parent] ELSE NewStats

InitTracker ==
    /\ queue = <<>> /\ stage = <<>> /\ inspected = <<>> /\ mem = <<>>
    /\ step = 0 /\ fs \in TrackerTrees /\ fs0 = <<>> /\ coh = <<>>
    /\ escalated = {} /\ expStep = 0 /\ fails = <<>> /\ pc = "off"
    /\ last = NoStep /\ hin = NoStep /\ hout = NoStep /\ hpc = "ready"

trackerFrame == <<queue, stage, inspected, mem, step, fs, fs0, expStep, fails,
                  pc, last>>

\* cohesion.note(parent, file, dest_root, subpath)
TrackerNote ==
    \E file \in TrackerFiles, dest \in TrackerDests :
        /\ hin' = [kind |-> "note", file |-> file, dest |-> dest,
                   before |-> StatsAt(coh, Parent(file)), escalated |-> escalated]
        /\ coh' = note(coh, Parent(file), file, dest[1], dest[2])
        /\ hout' = [kind |-> "note"]
        /\ hpc' = "called"
        /\ UNCHANGED <<escalated, trackerFrame>>

\* cohesion.consensus(parent)
TrackerConsensus ==
    /\ hin' = [kind |-> "consensus", parent |-> TrackerParent,
               before |-> StatsAt(coh, TrackerParent), escalated |-> escalated]
    /\ hout' = [kind |-> "consensus",
                result |-> consensus(coh, escalated, fs, TrackerParent)]
    /\ hpc' = "called"
    /\ UNCHANGED <<coh, escalated, trackerFrame>>

\* run(), lines 316-361, for the plan_move of a file to a destination: the
\* checks, the vote and the rewrite to the parent folder
TrackerVote ==
    \E file \in TrackerFiles, dest \in TrackerDests :
        \E pre \in {Prepare([src |-> file, destination_root |-> dest[1],
                             subpath |-> dest[2]])} :
            /\ hin' = [kind |-> "vote", file |-> file, dest |-> dest,
                       before |-> StatsAt(coh, Parent(file)),
                       escalated |-> escalated]
            /\ coh' = pre.coh
            /\ escalated' = IF pre.up THEN escalated \cup {Parent(file)}
                            ELSE escalated
            /\ hout' = [kind |-> "vote", branch |-> pre.kind, up |-> pre.up]
            /\ hpc' = "called"
            /\ UNCHANGED trackerFrame

NextTracker == TrackerNote \/ TrackerConsensus \/ TrackerVote

SpecTracker == InitTracker /\ [][NextTracker]_vars

\* The largest number of votes one destination has
TopVotes(s) ==
    CHOOSE n \in {s.votes[d] : d \in DOMAIN s.votes} :
        \A d \in DOMAIN s.votes : s.votes[d] <= n

\* The five conditions: not escalated, at least 3 votes, a share of the top
\* destination of at least 0.8 (4/5), an entropy of the extension histogram
\* of at most 1 bit (n^n <= 2^n * prod c^c for counts c summing to n), and
\* at most 500 immediate children
ConsensusConditions(s, already, f, parent) ==
    /\ parent \notin already
    /\ s.total >= 3
    /\ TopVotes(s) * 5 >= s.total * 4
    /\ Pow(s.total, s.total) <= Pow(2, s.total) * ProdPow(s.exts, DOMAIN s.exts)
    /\ Cardinality(Children(f, parent)) <= 500

\* C11: consensus(parent) returns the most-voted destination if and only if
\* the parent is not escalated, has at least 3 votes, the top destination has
\* at least 0.8 of them, the entropy of the extensions is at most 1 bit and
\* the parent has at most 500 immediate children; otherwise it returns none.
C11_Claim ==
    (hpc = "called" /\ hout.kind = "consensus") =>
        IF ConsensusConditions(hin.before, escalated, fs, hin.parent)
        THEN /\ hout.result \in DOMAIN hin.before.votes
             /\ hin.before.votes[hout.result] = TopVotes(hin.before)
        ELSE hout.result = NoConsensus

\* C12: a parent folder is escalated at most once: once it is marked,
\* consensus returns none for it whatever votes follow, and no later move is
\* rewritten to target it.
C12_EscalatedOnce ==
    /\ \A p \in escalated : consensus(coh, escalated, fs, p) = NoConsensus
    /\ (hpc = "called" /\ hout.kind = "vote" /\ hout.up) =>
           Parent(hin.file) \notin hin.escalated

\* C12 witness: a new file voted for an escalated parent whose votes would
\* make a consensus again, and the move was left on the file
C12_Witness ==
    /\ hpc = "called" /\ hout.kind = "vote" /\ hout.branch = "move"
    /\ Parent(hin.file) \in hin.escalated
    /\ hin.file \notin hin.before.seen
    /\ ConsensusConditions(StatsAt(coh, Parent(hin.file)), {}, fs, Parent(hin.file))
    /\ ~hout.up

\* The sum of the counts of a counter
RECURSIVE SumCounts(_, _)
SumCounts(counter, keys) ==
    IF keys = {} THEN 0
    ELSE With(CHOOSE k \in keys : TRUE, LAMBDA k :
            counter[k] + SumCounts(counter, keys \ {k}))

\* The four numbers of a parent's statistics agree
StatsAgree(s) ==
    /\ s.total = Cardinality(s.seen)
    /\ s.total = SumCounts(s.votes, DOMAIN s.votes)
    /\ s.total = SumCounts(s.exts, DOMAIN s.exts)

\* No number of the statistics b is larger than in a
StatsGrow(b, a) ==
    /\ b.total <= a.total
    /\ b.seen \subseteq a.seen
    /\ \A k \in DOMAIN b.votes : k \in DOMAIN a.votes /\ b.votes[k] <= a.votes[k]
    /\ \A k \in DOMAIN b.exts : k \in DOMAIN a.exts /\ b.exts[k] <= a.exts[k]

\* C36: in every state of the tracker and for every parent folder, total is
\* the number of files in seen, the sum of the vote counts and the sum of
\* the extension counts, and none of these numbers ever decreases.
C36_StatsConsistent ==
    [][/\ \A p \in DOMAIN coh : StatsAgree(coh[p])
       /\ \A p \in DOMAIN coh' : StatsAgree(coh'[p])
       /\ \A p \in DOMAIN coh :
             p \in DOMAIN coh' /\ StatsGrow(coh[p], coh'[p])
      ]_vars

\* C36 witness: a parent with votes for two destinations and files of two
\* extensions, after a note for a file already counted and a consensus query
C36_Witness ==
    /\ hpc = "called" /\ hout.kind = "consensus"
    /\ TrackerParent \in DOMAIN coh
    /\ coh[TrackerParent].total >= 4
    /\ Cardinality(DOMAIN coh[TrackerParent].votes) = 2
    /\ Cardinality(DOMAIN coh[TrackerParent].exts) >= 2
    /\ TrackerParent \in escalated

\* The keys of a counter whose count differs between b and a
Changed(b, a) ==
    {k \in DOMAIN a \cup DOMAIN b :
        (IF k \in DOMAIN a THEN a[k] ELSE 0) # (IF k \in DOMAIN b THEN b[k] ELSE 0)}

\* C13: a note for a file already counted under the parent, with the same or
\* another destination, leaves the parent's votes, extensions, seen set and
\* total as they were; a first note for a file adds one to the vote of its
\* destination, to one extension count and to the total.
C13_NoteIdempotent ==
    (hpc = "called" /\ hin.kind = "note") =>
        LET b == hin.before
            a == StatsAt(coh, Parent(hin.file))
        IN IF hin.file \in b.seen THEN a = b
           ELSE /\ a.seen = b.seen \cup {hin.file}
                /\ a.total = b.total + 1
                /\ Changed(b.votes, a.votes) = {hin.dest}
                /\ a.votes[hin.dest] = CountOf(b.votes, hin.dest) + 1
                /\ Cardinality(Changed(b.exts, a.exts)) = 1
                /\ \A e \in Changed(b.exts, a.exts) :
                       a.exts[e] = CountOf(b.exts, e) + 1

\* C13 witness: a file already counted was noted again with a destination
\* that had no vote yet
C13_Witness ==
    /\ hpc = "called" /\ hin.kind = "note"
    /\ hin.file \in hin.before.seen
    /\ hin.dest \notin DOMAIN hin.before.votes
    /\ hin.before.total >= 2

(***************************************************************************)
(* llm_io.py: llm_json, one call of the backend wrapper.  The server's     *)
(* answers to the requests of the call are drawn in the initial state; a   *)
(* prompt is its length.                                                   *)
(***************************************************************************)
REQUEST_TIMEOUT == 180
TIMEOUT_WIDENING == 120
PROMPT_CUT == 12000
ATTEMPTS == 3

\* str(x) of a decoded JSON value that is not a string
PyStr(j) ==
    CASE j.t = "null" -> <<"None">>
      [] j.t = "bool" -> IF j.b THEN <<"True">> ELSE <<"False">>
      [] j.t = "num" -> json_dumps(j)
      [] OTHER -> [i \in 1..Len(json_dumps(j)) |->
                     IF json_dumps(j)[i] = QUOTE THEN "'" ELSE json_dumps(j)[i]]

\* lines 91-96: the completion text of a decoded body; an attribute, key or
\* index error is the outcome raised
BodyText(body) ==
    IF body.t # "obj" THEN [raised |-> TRUE, txt |-> <<>>]
    ELSE With(Get(body, "content"), LAMBDA c :
        IF c.t = "null" /\ S("choices") \in DOMAIN body.kv
           /\ Truthy(body.kv[S("choices")])
        THEN With(body.kv[S("choices")], LAMBDA ch :
                IF ch.t = "list" /\ ch.v[1].t = "obj"
                THEN With(IF S("text") \in DOMAIN ch.v[1].kv
                          THEN ch.v[1].kv[S("text")] ELSE JStr(<<>>), LAMBDA t :
                        [raised |-> FALSE,
                         txt |-> IF t.t = "str" THEN t.s ELSE PyStr(t)])
                ELSE [raised |-> TRUE, txt |-> <<>>])
        ELSE [raised |-> FALSE, txt |-> IF c.t = "str" THEN c.s ELSE PyStr(c)])

\* post(payload), lines 84-102, on the answer resp: the pair's first member
\* (None is JNull) and the raw_text it leaves
post(resp, raw_text) ==
    IF resp.code >= 400 THEN [resp |-> JNull, raw_text |-> resp.text]
    ELSE IF ~resp.json
    THEN [resp |-> ErrorPlan("parse_error"), raw_text |-> resp.text]
    ELSE With(BodyText(resp.body), LAMBDA b :
            IF b.raised
            THEN [resp |-> ErrorPlan("parse_error"), raw_text |-> resp.text]
            ELSE [resp |-> _json_coerce(Strip(b.txt)), raw_text |-> Strip(b.txt)])

\* lines 105-113: the payload of attempt number a (from 0)
Payload(prompt, a, timeout) ==
    [stop |-> a = 0,
     prompt |-> IF a >= 2 /\ prompt > PROMPT_CUT THEN PROMPT_CUT ELSE prompt,
     timeout |-> timeout]

CallStart ==
    [attempt |-> 0, timeout |-> REQUEST_TIMEOUT, requests |-> <<>>,
     raw_text |-> <<>>, result |-> JNull, pc |-> "loop"]

\* A faulty variant of Attempt without the clause `except Exception`
AttemptUncaught(h, prompt, resp) ==
    With([h EXCEPT !.requests = Append(@, Payload(prompt, h.attempt, h.timeout)),
                   !.attempt = @ + 1], LAMBDA sent :
        CASE resp.kind = "read_timeout" ->
                [sent EXCEPT !.timeout = @ + TIMEOUT_WIDENING]
          [] resp.kind = "transport" -> [sent EXCEPT !.pc = "raised"]
          [] OTHER ->
                With(post(resp, h.raw_text), LAMBDA r :
                    IF r.resp # JNull
                    THEN [sent EXCEPT !.raw_text = r.raw_text, !.result = r.resp,
                                      !.pc = "returned"]
                    ELSE [sent EXCEPT !.raw_text = r.raw_text]))

\* lines 104-124: one turn of the loop of llm_json, the server answering resp
Attempt(h, prompt, resp) ==
    With([h EXCEPT !.requests = Append(@, Payload(prompt, h.attempt, h.timeout)),
                   !.attempt = @ + 1], LAMBDA sent :
        CASE resp.kind = "read_timeout" ->
                [sent EXCEPT !.timeout = @ + TIMEOUT_WIDENING]
          [] resp.kind = "transport" ->
                [sent EXCEPT !.result = ErrorPlan("llm_error"), !.pc = "returned"]
          [] OTHER ->
                With(post(resp, h.raw_text), LAMBDA r :
                    IF r.resp # JNull
                    THEN [sent EXCEPT !.raw_text = r.raw_text, !.result = r.resp,
                                      !.pc = "returned"]
                    ELSE [sent EXCEPT !.raw_text = r.raw_text]))

\* What the server answers to one request
HttpBody(v) ==
    [kind |-> "http", code |-> 200, json |-> TRUE, body |-> v,
     text |-> json_dumps(v)]

Completion(j) == HttpBody(JObj(S("content") :> JStr(json_dumps(j))))

BackendResponses ==
    {[kind |-> "http", code |-> 500, json |-> FALSE, body |-> JNull,
      text |-> <<"oops">>],
     [kind |-> "http", code |-> 400, json |-> TRUE, body |-> JObj(<<>>),
      text |-> <<"{", "}">>],
     [kind |-> "read_timeout"],
     [kind |-> "transport"],
     [kind |-> "http", code |-> 200, json |-> FALSE, body |-> JNull,
      text |-> <<"<html>">>],
     HttpBody(JList(<<JNum>>)),
     HttpBody(JObj(S("content") :> JNull)),
     HttpBody(JObj(S("content") :> JNum)),
     HttpBody(JObj(S("content") :> JStr(<<"Sure", SP, "thing">>))),
     HttpBody(JObj((S("content") :> JNull) @@ (S("choices") :> JNum))),
     HttpBody(JObj((S("content") :> JNull)
                   @@ (S("choices") :>
                         JList(<<JObj(S("text") :>
                                   JStr(json_dumps(PlanOf(JList(<<>>)))))>>)))),
     Completion(PlanOf(JList(<<JObj(S("tool") :> JStr(S("list_dir")))>>))),
     Completion(JObj(S("note") :> JStr(S("x"))))}

PromptLengths == {100, PROMPT_CUT, 20000}

InitBackend ==
    /\ RunIdle
    /\ hin \in [prompt : PromptLengths,
                answers : [1..ATTEMPTS -> BackendResponses]]
    /\ hout = CallStart
    /\ hpc = "loop"

\* One turn of the loop, the server's answer being of the given kind
BackendTurn(kind) ==
    /\ hpc = "loop" /\ hout.attempt < ATTEMPTS
    /\ hin.answers[hout.attempt + 1].kind = kind
    /\ hout' = Attempt(hout, hin.prompt, hin.answers[hout.attempt + 1])
    /\ hpc' = hout'.pc

AttemptHttp == BackendTurn("http") /\ UNCHANGED <<hin, runVars>>
AttemptReadTimeout == BackendTurn("read_timeout") /\ UNCHANGED <<hin, runVars>>
AttemptTransportError == BackendTurn("transport") /\ UNCHANGED <<hin, runVars>>

\* line 126: the loop is over without a result
AttemptsExhausted ==
    /\ hpc = "loop" /\ hout.attempt = ATTEMPTS
    /\ hout' = [hout EXCEPT !.result = ErrorPlan("llm_400_or_timeout"),
                            !.pc = "returned"]
    /\ hpc' = "returned"
    /\ UNCHANGED <<hin, runVars>>

NextBackend ==
    \/ AttemptHttp
    \/ AttemptReadTimeout
    \/ AttemptTransportError
    \/ AttemptsExhausted

SpecBackend == InitBackend /\ [][NextBackend]_vars

\* An answer that gives no usable body: an error status, a timeout, another
\* transport error, or a body that cannot be decoded into a completion text
Unusable(resp) ==
    \/ resp.kind \in {"read_timeout", "transport"}
    \/ resp.kind = "http" /\ resp.code >= 400
    \/ resp.kind = "http" /\ ~resp.json
    \/ resp.kind = "http" /\ resp.json /\ BodyText(resp.body).raised

ErrorTagged(j) ==
    /\ j.t = "obj"
    /\ Get(j, "error").t = "str"
    /\ Get(j, "actions") = JList(<<>>)

\* C19: one call of the backend wrapper makes at most three requests, the
\* third with the prompt truncated, the timeout widened after each
\* read-timeout, and never raises; when no attempt yields a usable body the
\* result is error-tagged with an empty actions list.
C19_BackendWrapper ==
    hpc \in {"loop", "returned", "raised"} =>
        /\ Len(hout.requests) <= 3
        /\ \A i \in 1..Len(hout.requests) :
              /\ hout.requests[i].prompt =
                    IF i = 3 /\ hin.prompt > PROMPT_CUT THEN PROMPT_CUT ELSE hin.prompt
              /\ hout.requests[i].timeout =
                    REQUEST_TIMEOUT
                    + TIMEOUT_WIDENING
                      * Cardinality({k \in 1..(i - 1) :
                                        hin.answers[k].kind = "read_timeout"})
        /\ hpc # "raised"
        /\ (hpc = "returned"
            /\ \A i \in 1..Len(hout.requests) : Unusable(hin.answers[i]))
              => ErrorTagged(hout.result)

C19_Witness ==
    /\ hpc = "returned"
    /\ Len(hout.requests) = 3
    /\ hin.prompt > PROMPT_CUT /\ hout.requests[3].prompt = PROMPT_CUT
    /\ hin.answers[1].kind = "read_timeout"
    /\ hin.answers[2].kind = "http" /\ hin.answers[2].code >= 400
    /\ hin.answers[3].kind = "read_timeout"
    /\ hout.requests[3].timeout = REQUEST_TIMEOUT + TIMEOUT_WIDENING
    /\ hout.result = ErrorPlan("llm_400_or_timeout")

(***************************************************************************)
(* __main__.py: the process from its start to its exit, with the signals   *)
(* it may receive on the way.  run() is taken by its outcome.              *)
(***************************************************************************)
SIGINT == 2
SIGTERM == 15
MaxSignals == 2

ProcessStart ==
    [installed |-> {}, handling |-> 0, after_cleanup |-> FALSE, code |-> -1,
     cleaned |-> 0, received |-> {}, signals |-> 0]

InitMain ==
    /\ RunIdle
    /\ hin \in [run : {"returns", "raises"}]
    /\ hout = ProcessStart
    /\ hpc = "prestage"

mainFrame == <<hin, runVars>>

\* The main thread goes on when no handler is running
MainAt(at) == hpc = at /\ hout.handling = 0

\* line 41
Prestage == MainAt("prestage") /\ hpc' = "wait_port" /\ UNCHANGED <<hout, mainFrame>>

\* line 44
WaitPort == MainAt("wait_port") /\ hpc' = "install_int" /\ UNCHANGED <<hout, mainFrame>>

\* line 47
InstallSigint ==
    /\ MainAt("install_int")
    /\ hout' = [hout EXCEPT !.installed = @ \cup {SIGINT}]
    /\ hpc' = "install_term"
    /\ UNCHANGED mainFrame

\* line 48
InstallSigterm ==
    /\ MainAt("install_term")
    /\ hout' = [hout EXCEPT !.installed = @ \cup {SIGTERM}]
    /\ hpc' = "run"
    /\ UNCHANGED mainFrame

\* lines 50-54: run() returns, or an exception leaves it; the finally clause
\* is next either way
RunReturns ==
    /\ MainAt("run") /\ hin.run = "returns"
    /\ hout' = [hout EXCEPT !.code = 0]
    /\ hpc' = "finally"
    /\ UNCHANGED mainFrame

RunRaises ==
    /\ MainAt("run") /\ hin.run = "raises"
    /\ hout' = [hout EXCEPT !.code = 1]
    /\ hpc' = "finally"
    /\ UNCHANGED mainFrame

\* line 55, then the end of the script
FinalCleanup ==
    /\ MainAt("finally")
    /\ hout' = [hout EXCEPT !.cleaned = @ + 1]
    /\ hpc' = "exited"
    /\ UNCHANGED mainFrame

CanReceive == hpc # "exited" /\ hout.signals < MaxSignals

Received(s) == [hout EXCEPT !.received = @ \cup {s}, !.signals = @ + 1]

\* A signal whose handler is installed: _signal_handler starts (line 29), on
\* top of whatever was running, a handler included
DeliverHandled ==
    /\ CanReceive
    /\ \E s \in hout.installed :
          hout' = [Received(s) EXCEPT !.handling = s, !.after_cleanup = FALSE]
    /\ UNCHANGED <<hpc, mainFrame>>

\* SIGTERM before line 48: the default action ends the process at once; the
\* code is the status a shell reports for it
DeliverDefaultTerm ==
    /\ CanReceive /\ SIGTERM \notin hout.installed
    /\ hout' = [Received(SIGTERM) EXCEPT !.code = 128 + SIGTERM]
    /\ hpc' = "exited"
    /\ UNCHANGED mainFrame

\* SIGINT before line 47: KeyboardInterrupt in the main thread, outside the
\* try statement; the interpreter ends with 1 or by the signal, by its version
DeliverDefaultInt ==
    /\ CanReceive /\ SIGINT \notin hout.installed
    /\ \E c \in {1, 128 + SIGINT} : hout' = [Received(SIGINT) EXCEPT !.code = c]
    /\ hpc' = "exited"
    /\ UNCHANGED mainFrame

\* line 31
HandlerCleanup ==
    /\ hpc # "exited" /\ hout.handling # 0 /\ ~hout.after_cleanup
    /\ hout' = [hout EXCEPT !.cleaned = @ + 1, !.after_cleanup = TRUE]
    /\ UNCHANGED <<hpc, mainFrame>>

\* lines 33-37: SystemExit(128 + signum) unwinds the main thread: through the
\* finally clause when run() was interrupted, to the exit anywhere else
HandlerExit ==
    /\ hpc # "exited" /\ hout.handling # 0 /\ hout.after_cleanup
    /\ hout' = [hout EXCEPT !.code = 128 + hout.handling, !.handling = 0,
                            !.after_cleanup = FALSE]
    /\ hpc' = IF hpc = "run" THEN "finally" ELSE "exited"
    /\ UNCHANGED mainFrame

NextMain ==
    \/ Prestage
    \/ WaitPort
    \/ InstallSigint
    \/ InstallSigterm
    \/ RunReturns
    \/ RunRaises
    \/ FinalCleanup
    \/ DeliverHandled
    \/ DeliverDefaultTerm
    \/ DeliverDefaultInt
    \/ HandlerCleanup
    \/ HandlerExit

SpecMain == InitMain /\ [][NextMain]_vars

\* C20: on an interrupt or termination signal received at any point of the
\* process lifetime the process runs the empty-directory cleanup and exits
\* with 128 + signal number; on normal completion it runs the cleanup and
\* exits 0; the cleanup has finished before the process exits.
C20_Claim ==
    hpc = "exited" =>
        /\ hout.cleaned >= 1
        /\ hout.received # {} => \E s \in hout.received : hout.code = 128 + s
        /\ (hout.received = {} /\ hin.run = "returns") => hout.code = 0

(***************************************************************************)
(* cleanup.py: remove_empty_dirs.  `denied` are the directories whose      *)
(* rmdir fails although they are empty (OSError, e.g. no permission); a    *)
(* symlink of the trees below points to a directory, whose entries are     *)
(* the paths under the link.                                               *)
(***************************************************************************)
\* lines 39-42: child.rmdir(), an OSError being passed over
Rmdir(f, c, denied) ==
    IF IsDir(f, c) /\ Children(f, c) = {} /\ c \notin denied
    THEN [q \in DOMAIN f \ {c} |-> f[q]]
    ELSE f

RECURSIVE RemoveThroughLinks(_, _, _)
RECURSIVE CleanLinkedChildren(_, _, _)
\* A faulty variant of remove_empty_dirs without the symlink test of line 35
CleanLinkedChildren(f, todo, denied) ==
    IF todo = {} THEN f
    ELSE With(CHOOSE c \in todo : TRUE, LAMBDA c :
            CleanLinkedChildren(
                IF c[Len(c)] = S("_moved_today") THEN f
                ELSE IF IsDir(f, c) \/ IsLink(f, c)
                THEN Rmdir(RemoveThroughLinks(f, c, denied), c, denied)
                ELSE f,
                todo \ {c}, denied))

RemoveThroughLinks(f, base, denied) ==
    IF ~(IsDir(f, base) \/ IsLink(f, base)) THEN f
    ELSE CleanLinkedChildren(f, Children(f, base), denied)

RECURSIVE remove_empty_dirs(_, _, _)
RECURSIVE CleanChildren(_, _, _)
\* lines 32-42: the loop over list(base.iterdir()); the entries are taken in
\* any order, their subtrees being disjoint
CleanChildren(f, todo, denied) ==
    IF todo = {} THEN f
    ELSE With(CHOOSE c \in todo : TRUE, LAMBDA c :
            CleanChildren(
                IF c[Len(c)] = S("_moved_today") THEN f
                ELSE IF IsLink(f, c) THEN f
                ELSE IF IsDir(f, c)
                THEN Rmdir(remove_empty_dirs(f, c, denied), c, denied)
                ELSE f,
                todo \ {c}, denied))

remove_empty_dirs(f, base, denied) ==
    IF ~IsDir(f, base) THEN f
    ELSE CleanChildren(f, Children(f, base), denied)

\* _final_cleanup, __main__.py lines 21-27
_final_cleanup(f, denied) == remove_empty_dirs(f, INBOX, denied)

CleanupFiles ==
    {INBOX \o <<S("A"), S("B"), S("f")>>, INBOX \o <<S("A"), S("g")>>,
     INBOX \o <<S("top.txt")>>, INBOX \o <<S("E"), S("e")>>}

CleanupTree(files) ==
    [d \in {ROOT, INBOX, DOCS, DOCS \o <<S("Empty")>>,
            INBOX \o <<S("A")>>, INBOX \o <<S("A"), S("B")>>,
            INBOX \o <<S("A"), S("_moved_today")>>,
            INBOX \o <<S("E")>>, INBOX \o <<S(".hidden")>>,
            INBOX \o <<S("_moved_today")>>,
            INBOX \o <<S("_moved_today"), S("D")>>,
            INBOX \o <<S("L"), S("Old")>>} |-> "dir"]
    @@ (INBOX \o <<S("L")>> :> "link")
    @@ [p \in files |-> "f1"]

CleanupDenied ==
    SUBSET {INBOX \o <<S("A"), S("B")>>, INBOX \o <<S("E")>>,
            INBOX \o <<S(".hidden")>>}

InitCleanup ==
    /\ RunIdle
    /\ hin \in [fs : {CleanupTree(fl) : fl \in SUBSET CleanupFiles},
                denied : CleanupDenied]
    /\ hout = NoStep
    /\ hpc = "ready"

CleanupCall ==
    /\ hpc = "ready"
    /\ hout' = [fs |-> _final_cleanup(hin.fs, hin.denied)]
    /\ hpc' = "called"
    /\ UNCHANGED <<hin, runVars>>

NextCleanup == CleanupCall

SpecCleanup == InitCleanup /\ [][NextCleanup]_vars

\* p is, or lies under, a symlink or a folder named _moved_today below base
Shielded(f, base, p) ==
    \E k \in (Len(base) + 1)..Len(p) :
        \/ IsLink(f, SubSeq(p, 1, k))
        \/ p[k] = S("_moved_today")

\* C21: the cleanup removes only directories under the inbox that are empty
\* when removed: never a file, a non-empty directory, the inbox root or
\* anything reached through a symlink; nothing else changes; and a removal
\* that fails does not stop the cleanup of the remaining directories.
C21_CleanupOnlyEmptyDirs ==
    hpc = "called" =>
        /\ \A p \in DOMAIN hout.fs : p \in DOMAIN hin.fs /\ hout.fs[p] = hin.fs[p]
        /\ \A p \in DOMAIN hin.fs \ DOMAIN hout.fs :
              /\ IsDir(hin.fs, p)
              /\ Under(INBOX, p) /\ p # INBOX
              /\ ~Shielded(hin.fs, INBOX, p)
              /\ \A q \in DOMAIN hin.fs : Under(p, q) => q \notin DOMAIN hout.fs
        /\ \A p \in DOMAIN hout.fs :
              (/\ IsDir(hout.fs, p) /\ Under(INBOX, p) /\ p # INBOX
               /\ ~Shielded(hin.fs, INBOX, p)
               /\ Children(hout.fs, p) = {})
                 => p \in hin.denied

C21_Witness ==
    /\ hpc = "called"
    /\ hin.denied = {INBOX \o <<S("A"), S("B")>>}
    /\ IsDir(hout.fs, INBOX \o <<S("A"), S("B")>>)
    /\ Children(hout.fs, INBOX \o <<S("A"), S("B")>>) = {}
    /\ ~Exists(hout.fs, INBOX \o <<S("E")>>)
    /\ ~Exists(hout.fs, INBOX \o <<S(".hidden")>>)
    /\ Exists(hout.fs, INBOX \o <<S("L"), S("Old")>>)
    /\ Exists(hout.fs, INBOX \o <<S("_moved_today"), S("D")>>)

(***************************************************************************)
(* agent.py: the order of the queue, as a function of the order in which   *)
(* the filesystem enumerates a directory (Path.iterdir)                    *)
(***************************************************************************)
\* str.lower() of the names of the order trees
LowerName(seg) == [i \in 1..Len(seg) |-> IF seg[i] = "A.txt" THEN "a.txt" ELSE seg[i]]

\* The names of the order trees in the order of Python's string comparison
NameOrder == <<S(".hidden"), S("A.txt"), S("a.txt"), S("b.txt")>>

\* list.sort(key=...) and sorted(...): a stable insertion by rank; lower
\* says whether the key is the lower-cased name
SortKey(lower, q) ==
    Rank(NameOrder, IF lower THEN LowerName(q[Len(q)]) ELSE q[Len(q)])

RECURSIVE InsertStable(_, _, _)
InsertStable(lower, x, sorted) ==
    IF sorted = <<>> THEN <<x>>
    ELSE IF SortKey(lower, Head(sorted)) <= SortKey(lower, x)
    THEN <<Head(sorted)>> \o InsertStable(lower, x, Tail(sorted))
    ELSE <<x>> \o sorted

RECURSIVE StableSort(_, _)
StableSort(lower, seq) ==
    IF seq = <<>> THEN <<>>
    ELSE InsertStable(lower, seq[Len(seq)],
                      StableSort(lower, SubSeq(seq, 1, Len(seq) - 1)))

\* lines 153-154: the initial queue of an inbox enumerated as enum
QueueOf(f, enum) ==
    StableSort(TRUE,
               SelectSeq(enum, LAMBDA q :
                   /\ ~StartsWithDot(q[Len(q)])
                   /\ q[Len(q)] # S("_moved_today")
                   /\ ~IsLink(f, q)))

\* lines 186-193 and 252-259: sorted(kids) of a directory enumerated as enum
SortedKids(f, enum) ==
    StableSort(FALSE,
               SelectSeq(enum, LAMBDA q :
                   /\ ~StartsWithDot(q[Len(q)]) /\ q[Len(q)] \notin _HIDDEN_NAMES
                   /\ ~IsLink(f, q) /\ ~_is_in_dep_dir(q)))

OrderTree ==
    [d \in {ROOT, INBOX, INBOX \o <<S(".hidden")>>} |-> "dir"]
    @@ (INBOX \o <<S("A.txt")>> :> "f1") @@ (INBOX \o <<S("a.txt")>> :> "f2")
    @@ (INBOX \o <<S("b.txt")>> :> "f3")

\* The orders in which iterdir may yield the entries of a directory
Enumerations(f, p) ==
    {e \in [1..Cardinality(Children(f, p)) -> Children(f, p)] :
        \A i, j \in DOMAIN e : e[i] = e[j] => i = j}

InitOrder ==
    /\ RunIdle
    /\ hin \in [fs : {OrderTree}, first : Enumerations(OrderTree, INBOX),
                second : Enumerations(OrderTree, INBOX)]
    /\ hout = NoStep
    /\ hpc = "ready"

\* Two runs on the same tree, each with its own enumeration of the inbox
OrderCall ==
    /\ hpc = "ready"
    /\ hout' = [queue1 |-> QueueOf(hin.fs, hin.first),
                queue2 |-> QueueOf(hin.fs, hin.second),
                kids1 |-> SortedKids(hin.fs, hin.first),
                kids2 |-> SortedKids(hin.fs, hin.second)]
    /\ hpc' = "called"
    /\ UNCHANGED <<hin, runVars>>

NextOrder == OrderCall

SpecOrder == InitOrder /\ [][NextOrder]_vars

\* C23: on the same filesystem contents two runs queue and process the
\* items in the same order, whatever the order in which the filesystem
\* enumerates the entries of a directory.
C23_Claim ==
    hpc = "called" =>
        /\ hout.queue1 = hout.queue2
        /\ hout.kids1 = hout.kids2

(***************************************************************************)
(* Harness of safe_ascii: every string of at most MaxNameLen characters    *)
(* of the kinds the function tells apart, applied once and twice           *)
(***************************************************************************)
MaxNameLen == 3

NameChars == {"a", ".", "_", SP, SEP, BAD, "e_acute"}

NameTexts == UNION {[1..n -> NameChars] : n \in 0..MaxNameLen}

InitAscii ==
    /\ RunIdle
    /\ hin \in NameTexts
    /\ hout = NoStep
    /\ hpc = "ready"

AsciiCall ==
    /\ hpc = "ready"
    /\ hout' = [once |-> safe_ascii(hin), twice |-> safe_ascii(safe_ascii(hin))]
    /\ hpc' = "called"
    /\ UNCHANGED <<hin, runVars>>

NextAscii == AsciiCall

SpecAscii == InitAscii /\ [][NextAscii]_vars

\* C24: ASCII sanitization is total and stable: it returns a non-empty
\* string, and applied to its own result it returns that result unchanged.
C24_SafeAsciiStable ==
    hpc = "called" =>
        /\ hout.once # <<>>
        /\ hout.twice = hout.once

C24_Witness ==
    /\ hpc = "called"
    /\ hin = <<SP, BAD, "e_acute">>
    /\ hout.once = <<"_", "e">>
    /\ hout.twice = hout.once

(***************************************************************************)
(* Harness of the execution of a plan_move (run(), lines 316-400): DECIDE   *)
(* steps whose first plan_move names any file of the vault as its source    *)
(***************************************************************************)
MaxVotes == 4

\* A vault with three files of one kind in a folder of the inbox, one loose
\* file in the inbox, and three files of one kind in a folder of Documents
VoteTree ==
    LET dirs == {ROOT, INBOX, DOCS, MEDIA, PROJ, INBOX \o <<S("Album")>>,
                 DOCS \o <<S("Fin")>>}
        files == (INBOX \o <<S("Album"), S("1.mp3")>> :> "f1")
                 @@ (INBOX \o <<S("Album"), S("2.mp3")>> :> "f2")
                 @@ (INBOX \o <<S("Album"), S("3.mp3")>> :> "f3")
                 @@ (INBOX \o <<S("z.txt")>> :> "f5")
                 @@ (DOCS \o <<S("Fin"), S("1.mp3")>> :> "f6")
                 @@ (DOCS \o <<S("Fin"), S("2.mp3")>> :> "f7")
                 @@ (DOCS \o <<S("Fin"), S("3.mp3")>> :> "f8")
    IN [d \in dirs |-> "dir"] @@ files

VoteSources == {q \in DOMAIN VoteTree : IsFile(VoteTree, q)}

VoteDests == {<<S("Documents"), S("Fin")>>, <<S("Media"), S("Music")>>}

InitVote ==
    /\ fs = VoteTree /\ fs0 = fs
    /\ queue = InitialQueue(fs)
    /\ stage = <<>> /\ inspected = <<>> /\ mem = <<>> /\ step = 0
    /\ coh = <<>> /\ escalated = {} /\ expStep = 0 /\ fails = <<>>
    /\ pc = "off" /\ last = NoStep
    /\ hin = NoStep /\ hout = NoStep /\ hpc = "ready"

\* lines 316-400 for the plan_move a of a DECIDE step
VoteStep ==
    /\ step < MaxVotes /\ queue # <<>>
    /\ \E src \in VoteSources, dest \in VoteDests :
        \E a \in {[src |-> src, destination_root |-> dest[1],
                    subpath |-> dest[2], filename |-> src[Len(src)]]} :
        \E pre \in {Prepare(a)} :
            /\ hin' = [kind |-> "plan_move", a |-> a, fs |-> fs,
                       cons |-> IF pre.kind \in {"invalid_plan_move", "dep_rotate"}
                                   /\ ~pre.up
                                THEN NoConsensus
                                ELSE consensus(pre.coh, escalated, fs, Parent(src))]
            /\ coh' = pre.coh
            /\ escalated' = IF pre.up THEN escalated \cup {Parent(src)}
                            ELSE escalated
            /\ IF pre.kind = "move"
               THEN \E o \in {Execute(a, pre)} :
                       /\ queue' = o.queue
                       /\ fs' = o.fs
                       /\ hout' = [kind |-> "move", up |-> pre.up, move |-> o.move]
               ELSE /\ queue' = Rotate(queue)
                    /\ fs' = fs
                    /\ hout' = [kind |-> pre.kind, up |-> pre.up, move |-> NoMove]
    /\ step' = step + 1
    /\ hpc' = "called"
    /\ UNCHANGED <<stage, inspected, mem, fs0, expStep, fails, pc, last>>

NextVote == VoteStep

SpecVote == InitVote /\ [][NextVote]_vars

\* C29: an escalation rewrites the move to the immediate parent of the file
\* being moved, with the consensus destination and the parent's sanitized
\* name, and only when that parent is a strict descendant of the inbox root:
\* the inbox root and the folders above or outside it are never moved.
C29_EscalationInsideInbox ==
    (hpc = "called" /\ hout.kind = "move" /\ hout.up) =>
        LET parent == Parent(hin.a.src)
        IN /\ hout.move.src = parent
           /\ <<hout.move.root, hout.move.subpath>> = hin.cons
           /\ hout.move.filename = safe_ascii(parent[Len(parent)])
           /\ hout.move.error \/ (Under(INBOX, parent) /\ parent # INBOX)

(***************************************************************************)
(* Harness of the expansion of a directory (run(), lines 182-200): runs     *)
(* that start with the folder INBOX/Album at the head of the queue, over    *)
(* every choice of the entries the folder and its subfolder hold            *)
(***************************************************************************)
ExpandParent == INBOX \o <<S("Album")>>

\* The entries the folder may hold: files, a subfolder, a hidden file, the
\* drop folder, a dependency folder and a symlink
ExpandEntries ==
    (ExpandParent \o <<S("3.mp3")>> :> "f3")
    @@ (ExpandParent \o <<S("1.mp3")>> :> "f1")
    @@ (ExpandParent \o <<S("Album")>> :> "dir")
    @@ (ExpandParent \o <<S("Album"), S("x.js")>> :> "f4")
    @@ (ExpandParent \o <<S(".hidden")>> :> "f7")
    @@ (ExpandParent \o <<S("_moved_today")>> :> "dir")
    @@ (ExpandParent \o <<S("build")>> :> "dir")
    @@ (ExpandParent \o <<S("z.txt")>> :> "link")

ExpandTrees ==
    {[d \in {ROOT, INBOX, DOCS, MEDIA, PROJ, ExpandParent} |-> "dir"]
        @@ (INBOX \o <<S("z.txt")>> :> "f5")
        @@ [q \in held |-> ExpandEntries[q]] :
     held \in {h \in SUBSET DOMAIN ExpandEntries :
                  \A q \in h : Parent(q) = ExpandParent \/ Parent(q) \in h}}

ExpandRests == {<<>>, <<INBOX \o <<S("z.txt")>>, ExpandParent \o <<S("1.mp3")>>>>}

InitExpand ==
    /\ fs \in ExpandTrees /\ fs0 = fs
    /\ \E rest \in ExpandRests : queue = <<ExpandParent>> \o rest
    /\ mem \in {<<>>, <<[tool |-> "list_dir", path |-> INBOX]>>}
    /\ stage = <<>> /\ inspected = <<>> /\ step = 0
    /\ coh = <<>> /\ escalated = {} /\ expStep = 0 /\ fails = <<>>
    /\ pc = "run" /\ last = NoStep
    /\ hin = NoStep /\ hout = NoStep /\ hpc = "off"

NextExpand == ExpandDir

SpecExpand == InitExpand /\ [][NextExpand]_vars

\* The entries of p that are not hidden, not symlinks, not the drop folder
\* and not named like a dependency directory
FilteredChildren(f, p) ==
    {q \in DOMAIN f :
        /\ Parent(q) = p /\ q # p
        /\ q[Len(q)][1] \notin {".hidden", ".git", ".venv", ".cache"}
        /\ f[q] # "link"
        /\ q[Len(q)] # S("_moved_today")
        /\ q[Len(q)][1] \notin DEP_DIR_NAMES}

\* q holds each path of ps once, by ascending name
SortedListOf(q, ps) ==
    /\ Len(q) = Cardinality(ps)
    /\ {q[i] : i \in DOMAIN q} = ps
    /\ \A i, j \in DOMAIN q :
          i < j => Rank(StringOrder, q[i][Len(q[i])]) < Rank(StringOrder, q[j][Len(q[j])])

\* C32: a step whose head is a directory (outside the dependency
\* directories) that has not been listed in recent memory makes no model
\* call and replaces the head by its filtered children in sorted order,
\* followed by the previous rest of the queue in unchanged order.
C32_ExpandReplacesHead ==
    [][(/\ pc = "run" /\ queue # <<>> /\ step' # step
        /\ IsDir(fs, queue[1]) /\ ~HasDepSegment(queue[1])
        /\ ~\E i \in DOMAIN mem : mem[i] = [tool |-> "list_dir", path |-> queue[1]])
       => \E n \in 0..Len(queue') :
             /\ SortedListOf(SubSeq(queue', 1, n), FilteredChildren(fs, queue[1]))
             /\ SubSeq(queue', n + 1, Len(queue')) = Tail(queue)
             /\ last'.kind = "expand" /\ last'.llm = 0
             /\ fs' = fs
      ]_vars

\* C32 witness: a folder with a hidden file, a symlink, the drop folder and a
\* dependency folder was replaced by its two files and its subfolder
C32_Witness ==
    /\ last.kind = "expand" /\ last.target = ExpandParent
    /\ DOMAIN ExpandEntries \subseteq DOMAIN fs
    /\ queue = <<ExpandParent \o <<S("1.mp3")>>, ExpandParent \o <<S("3.mp3")>>,
                 ExpandParent \o <<S("Album")>>, INBOX \o <<S("z.txt")>>,
                 ExpandParent \o <<S("1.mp3")>>>>

(***************************************************************************)
(* snapshot.py: tree_snapshot, and the snapshot cache of run() (lines       *)
(* 166-167 and 269-282) over runs of DECIDE steps and other steps           *)
(***************************************************************************)
DOC_TREE_DEPTH == 3
MEDIA_TREE_DEPTH == 2
PROJ_TREE_DEPTH == 1
DIR_CAP == 40
MaxSnapSteps == 23

\* The directories walk() enters below p: not hidden, not ignored, the first
\* dir_cap of them by name
SnapKids(f, p, dir_cap) ==
    With(SortedBy(LowerOrder,
                  {q \in Children(f, p) :
                      IsDir(f, q) /\ ~StartsWithDot(q[Len(q)])
                      /\ q[Len(q)] # S("_moved_today")}),
         LAMBDA kids :
            {kids[i] : i \in {j \in DOMAIN kids : j <= dir_cap}})

\* tree_snapshot(base, depth, dir_cap): the nodes of the tree, each with the
\* number of folders its summary counts
RECURSIVE walk(_, _, _, _)
walk(f, p, d, dir_cap) ==
    {[path |-> p,
      dirs |-> Cardinality({q \in Children(f, p) :
                               IsDir(f, q) /\ ~StartsWithDot(q[Len(q)])
                               /\ q[Len(q)] # S("_moved_today")})]}
    \cup (IF d = 0 THEN {}
          ELSE UNION {walk(f, k, d - 1, dir_cap) : k \in SnapKids(f, p, dir_cap)})

tree_snapshot(f, base, depth, dir_cap) ==
    [built |-> TRUE, nodes |-> walk(f, base, depth, dir_cap)]

\* None
NullSnap == [built |-> FALSE, nodes |-> {}]

\* line 166
EmptyCache == [docs |-> NullSnap, media |-> NullSnap, proj |-> NullSnap]

\* lines 272-274
BuiltCache(f) ==
    [docs |-> tree_snapshot(f, DOCS, DOC_TREE_DEPTH, DIR_CAP),
     media |-> tree_snapshot(f, MEDIA, MEDIA_TREE_DEPTH, DIR_CAP),
     proj |-> tree_snapshot(f, PROJ, PROJ_TREE_DEPTH, DIR_CAP)]

\* A faulty variant of SnapDue that rebuilds at every DECIDE step
SnapAlways(s, exp) == TRUE

\* line 270
SnapDue(s, exp) == s >= exp

SnapTree ==
    [d \in {ROOT, INBOX, DOCS, MEDIA, PROJ} |-> "dir"]
    @@ (INBOX \o <<S("1.mp3")>> :> "f1")
    @@ (INBOX \o <<S("z.txt")>> :> "f5")

SnapDests ==
    {<<S("Documents"), S("Fin")>>, <<S("Documents"), <<"Fin", SEP, "Album">>>>,
     <<S("Media"), S("Album")>>}

InitSnap ==
    /\ fs = SnapTree /\ fs0 = fs
    /\ queue = InitialQueue(fs)
    /\ stage = <<>> /\ inspected = <<>> /\ mem = <<>> /\ step = 0
    /\ coh = <<>> /\ escalated = {} /\ expStep = 0 /\ fails = <<>>
    /\ pc = "run" /\ last = [kind |-> "none", refreshed |-> FALSE, rebuiltAt |-> 0]
    /\ hin = NoStep /\ hout = EmptyCache /\ hpc = "off"

snapFrame == <<queue, stage, inspected, mem, fs0, coh, escalated, fails, pc, hpc>>

\* lines 169-267: a step that ends before the DECIDE stage
SnapOtherStep ==
    /\ step < MaxSnapSteps
    /\ step' = step + 1
    /\ last' = [last EXCEPT !.kind = "other", !.refreshed = FALSE]
    /\ UNCHANGED <<fs, expStep, hin, hout, snapFrame>>

\* lines 269-282 and 391: a DECIDE step; its prompt carries the cached
\* trees; it may end with a move into a destination
SnapDecideStep(refresh) ==
    /\ step < MaxSnapSteps
    /\ step' = step + 1
    /\ refresh = SnapDue(step + 1, expStep)
    /\ hout' = IF refresh THEN BuiltCache(fs) ELSE hout
    /\ expStep' = IF refresh THEN step + 1 + SNAP_TTL_STEPS ELSE expStep
    /\ hin' = [Documents |-> hout'.docs, Media |-> hout'.media,
               Projects |-> hout'.proj]
    /\ last' = [kind |-> "decide", refreshed |-> refresh,
                rebuiltAt |-> IF refresh THEN step + 1 ELSE last.rebuiltAt]
    /\ \/ fs' = fs
       \/ \E src \in {q \in DOMAIN fs : IsFile(fs, q) /\ Parent(q) = INBOX},
             dest \in SnapDests :
             fs' = tool_plan_move(fs, src, dest[1], dest[2], src[Len(src)]).fs
    /\ UNCHANGED snapFrame

SnapRefresh == SnapDecideStep(TRUE)

SnapCached == SnapDecideStep(FALSE)

NextSnap == SnapOtherStep \/ SnapRefresh \/ SnapCached

SpecSnap == InitSnap /\ [][NextSnap]_vars

\* C33: the snapshots are rebuilt only at a DECIDE step whose number has
\* reached the expiry step, which becomes that step + 10; two rebuilds are
\* at least 10 steps apart; a move never changes the cached trees; every
\* DECIDE prompt carries a built snapshot of the three roots.
C33_SnapshotCache ==
    [][step' # step =>
        /\ (hout' # hout \/ expStep' # expStep \/ last'.refreshed) =>
              /\ last'.kind = "decide"
              /\ step' >= expStep
              /\ expStep' = step' + 10
              /\ hout' = BuiltCache(fs)
              /\ last.rebuiltAt > 0 => step' - last.rebuiltAt >= 10
        /\ (last'.kind = "decide" /\ step' >= expStep) => last'.refreshed
        /\ last'.kind = "decide" =>
              /\ hin' = [Documents |-> hout'.docs, Media |-> hout'.media,
                         Projects |-> hout'.proj]
              /\ \A r \in DOMAIN hin' : hin'[r] # NullSnap
      ]_vars

\* C33 witness: a DECIDE step within the window, after a move that created
\* folders in Documents, still carried the trees built before the move
C33_Witness ==
    /\ last.kind = "decide" /\ ~last.refreshed
    /\ last.rebuiltAt = 11 /\ step = 15
    /\ hout # BuiltCache(fs)
    /\ hin.Documents = hout.docs /\ hout.docs # NullSnap

====
